---- MODULE Spec2Model ----
(***************************************************************************)
(* FIT import pipeline of gofit (backend/activity/services/fit_parser.py)  *)
(* over the activity models (backend/activity/models.py).                  *)
(*                                                                         *)
(* The database is a record of tables (sets of rows).  Every call of       *)
(* parse_and_import runs inside transaction.atomic: its writes go to the   *)
(* call's own uncommitted row set tx[c], its reads see db plus tx[c], and  *)
(* the exit of the atomic block either merges tx[c] into db or drops it.   *)
(***************************************************************************)
EXTENDS Integers, Sequences, FiniteSets, TLC

(* ----------------------------- bounds --------------------------------- *)
MaxCalls     == 2   \* parse_and_import calls on the shared upload folder
MaxFileCalls == 1   \* calls when the folder holds one generated file
MaxLaps      == 2   \* lap messages of a generated file
MaxRecords   == 3   \* record messages of a generated file
MaxDevices   == 2   \* device_info messages of a generated file

(* ------------------------- decoded values ----------------------------- *)
\* A decoded field value (what fitparse hands over): None, an int, a float
\* (v counts units of 10^-5), a numeric or a non-numeric string, NaN, an
\* infinity, a UTC datetime (seconds), or a value of another type.
PyNone      == [t |-> "none", v |-> 0]
Int_(n)     == [t |-> "int", v |-> n]
Float(u)    == [t |-> "float", v |-> u]
NumStr(u)   == [t |-> "numstr", v |-> u]
Str         == [t |-> "str", v |-> 0]
NaN         == [t |-> "nan", v |-> 0]
Datetime(s) == [t |-> "datetime", v |-> s]
Inf         == [t |-> "inf", v |-> 0]
NegInf      == [t |-> "neginf", v |-> 0]
List_       == [t |-> "list", v |-> 0]

\* Units of a float per 1.0.
Unit == 10 ^ 5

\* A Decimal result (v counts units of 10^-5) and its special values.
Decimal(u)    == [t |-> "decimal", v |-> u]
DecimalNaN    == [t |-> "decimal_nan", v |-> 0]
DecimalInf    == [t |-> "decimal_inf", v |-> 0]
DecimalNegInf == [t |-> "decimal_neginf", v |-> 0]

\* Python truth value of a decoded value (`not x`, `x or y`).
Truthy(x) == \/ x.t \in {"datetime", "inf", "neginf", "nan", "numstr", "str", "list"}
             \/ x.t \in {"int", "float"} /\ x.v # 0

\* `x or y`
Or(x, y) == IF Truthy(x) THEN x ELSE y

\* dict.get(key) and dict.get(key, default) on a message's field dict.
get(d, k) == IF k \in DOMAIN d THEN d[k] ELSE PyNone
get_default(d, k, dflt) == IF k \in DOMAIN d THEN d[k] ELSE dflt

\* str(x) of a decoded value.
str(x) == CASE x.t = "none" -> "None"
            [] x.t = "int" -> ToString(x.v)
            [] x.t = "datetime" -> ToString(x.v)
            [] x.t = "inf" -> "inf"
            [] OTHER -> x.t

\* str(d.get(key, default)) where the default is already a string.
str_get(d, k, dflt) == IF k \in DOMAIN d THEN str(d[k]) ELSE dflt

EmptyDict == [k \in {} |-> PyNone]
Message(name, fields) == [name |-> name, fields |-> fields]

(* ----------------------------- exceptions ----------------------------- *)
\* orm: raised inside an ORM write, which marks the transaction for rollback.
\* at: the statement of parse_and_import that was running.
NoExc == [type |-> "", msg |-> "", orm |-> FALSE, at |-> ""]
Exception(type, msg, orm) == [type |-> type, msg |-> msg, orm |-> orm, at |-> ""]

(* ------------------------- coercion utilities ------------------------- *)
\* float(value): the units of the float, for the types float() accepts.
ToFloat(value) == IF value.t = "int" THEN value.v * Unit ELSE value.v

\* round(x, precision) of a float of u units: the nearest multiple of
\* 10^-precision, an exact tie going to the even multiple.
Round(u, precision) ==
    LET q   == 10 ^ (5 - precision)
        lo  == (u \div q) * q
        rem == u - lo
    IN  IF 2 * rem < q THEN lo
        ELSE IF 2 * rem > q THEN lo + q
        ELSE IF (lo \div q) % 2 = 0 THEN lo ELSE lo + q

\* _safe_decimal: None -> None; Decimal(str(round(float(value), precision)));
\* ValueError/TypeError -> None.  float() of NaN and of the infinities
\* succeeds, round() with ndigits keeps them, and Decimal() parses them.
_safe_decimal(value, precision) ==
    CASE value.t = "none" -> PyNone
      [] value.t \in {"int", "float", "numstr"} -> Decimal(Round(ToFloat(value), precision))
      [] value.t = "nan" -> DecimalNaN
      [] value.t = "inf" -> DecimalInf
      [] value.t = "neginf" -> DecimalNegInf
      [] OTHER -> PyNone

\* Exception leaving _safe_decimal: none for the values above (float() of an
\* int beyond the float range would raise OverflowError; FIT integers are at
\* most 64 bits wide).
Raised_safe_decimal(value, precision) == NoExc

\* Exception leaving _safe_int: int() of an infinity raises OverflowError,
\* which the except clause does not list.
Raised_safe_int(value) ==
    IF value.t \in {"inf", "neginf"}
    THEN Exception("OverflowError", "cannot convert float infinity to integer", FALSE)
    ELSE NoExc

\* int() of a float truncates toward zero.
Trunc(u) == IF u >= 0 THEN u \div Unit ELSE 0 - ((0 - u) \div Unit)

\* _safe_int: None -> None; int(value); ValueError/TypeError -> None.  int()
\* of a string accepts an integer literal only, and int(NaN) is a ValueError.
_safe_int(value) ==
    CASE value.t = "int" -> value
      [] value.t = "float" -> Int_(Trunc(value.v))
      [] value.t = "numstr" /\ value.v % Unit = 0 -> Int_(value.v \div Unit)
      [] OTHER -> PyNone

\* SEMICIRCLE_TO_DEGREES = 180.0 / 2**31 = 45 / 2**29, exact in binary64.
DegreesNum == 45
DegreesDen == 2 ^ 29

\* x * n as q * d + r with 0 <= r < d, for 0 <= x < d, by doubling (the
\* product itself may exceed the range of the checker's integers).
RECURSIVE Times(_, _, _)
Times(x, n, d) ==
    IF n = 0
    THEN [q |-> 0, r |-> 0]
    ELSE LET h   == Times(x, n \div 2, d)
             r2  == 2 * h.r + (IF n % 2 = 1 THEN x ELSE 0)
         IN  [q |-> 2 * h.q + (r2 \div d), r |-> r2 % d]

\* A Decimal of v + frac / 2^29 degrees.  The float product of a 32-bit
\* integer and the factor is exact, and Decimal(str(.)) of a float denotes
\* that float.
Degrees(v, frac) == [t |-> "degrees", v |-> v, frac |-> frac]

\* semicircles * SEMICIRCLE_TO_DEGREES for an integer.
SemicirclesToDegrees(n) ==
    LET p == Times(n % DegreesDen, DegreesNum, DegreesDen)
    IN  Degrees((n \div DegreesDen) * DegreesNum + p.q, p.r)

\* Variant: a falsy argument (None or 0) gives None.
_convert_semicircles_to_degrees_Falsy(semicircles) ==
    IF ~Truthy(semicircles) THEN PyNone ELSE SemicirclesToDegrees(semicircles.v)

\* Exception leaving _convert_semicircles_to_degrees: str, datetime or list
\* times float is a TypeError, and nothing is caught.
Raised_convert_semicircles_to_degrees(semicircles) ==
    IF semicircles.t \in {"numstr", "str", "datetime", "list"}
    THEN Exception("TypeError", "unsupported operand type(s) for *", FALSE)
    ELSE NoExc

\* _convert_semicircles_to_degrees: None -> None; otherwise
\* Decimal(str(semicircles * SEMICIRCLE_TO_DEGREES)).  Position fields are
\* 32-bit integers; float arguments are left out.
_convert_semicircles_to_degrees(semicircles) ==
    CASE semicircles.t = "none" -> PyNone
      [] semicircles.t = "int" -> SemicirclesToDegrees(semicircles.v)
      [] semicircles.t = "nan" -> DecimalNaN
      [] semicircles.t = "inf" -> DecimalInf
      [] semicircles.t = "neginf" -> DecimalNegInf
      [] OTHER -> PyNone

(* -------------------------- semantic mappings ------------------------- *)
\* A decoded string: its letters in lower case, and how they are cased in
\* the file ("lower", "upper" or "title").
Text(word, case) == [t |-> "text", v |-> 0, word |-> word, case |-> case]

\* Variant: the lookup key keeps the case of the decoded string.
str_lower_CaseKept(x) ==
    CASE x.t = "text" -> IF x.case = "lower" THEN x.word ELSE ""
      [] x.t = "none" -> "None"
      [] OTHER -> str(x)

\* str(x).lower()
str_lower(x) ==
    CASE x.t = "text" -> x.word
      [] x.t = "none" -> "none"
      [] OTHER -> str(x)

\* The values of the TextChoices enumerations.
SportType == {"running", "cycling", "swimming", "strength", "crossfit", "rowing",
              "walking", "hiking", "yoga", "elliptical", "stair_climbing", "skiing",
              "other"}
SubSportType == {"generic", "treadmill", "street", "trail", "track", "virtual_activity",
                 "indoor_cycling", "mountain", "open_water", "lap_swimming", "freestyle"}
IntensityLevel == {"rest", "warmup", "active", "recovery", "tempo", "threshold", "vo2max",
                   "anaerobic", "sprint", "cooldown"}
LapTrigger == {"manual", "time", "distance", "position_start", "fitness_equipment",
               "session_end"}

SPORT_MAP ==
    [running |-> "running", cycling |-> "cycling", swimming |-> "swimming",
     fitness_equipment |-> "strength", training |-> "strength", walking |-> "walking",
     hiking |-> "hiking", rowing |-> "rowing", elliptical |-> "elliptical",
     stair_climbing |-> "stair_climbing", alpine_skiing |-> "skiing",
     snowboarding |-> "skiing"]

SUB_SPORT_MAP ==
    [generic |-> "generic", treadmill |-> "treadmill", street |-> "street",
     trail |-> "trail", track |-> "track", spin |-> "indoor_cycling",
     indoor_cycling |-> "indoor_cycling", virtual_activity |-> "virtual_activity",
     open_water |-> "open_water", lap_swimming |-> "lap_swimming"]

trigger_map ==
    [manual |-> "manual", time |-> "time", distance |-> "distance",
     position_start |-> "position_start", session_end |-> "session_end"]

intensity_map ==
    [warmup |-> "warmup", cooldown |-> "cooldown", rest |-> "rest",
     recovery |-> "recovery", active |-> "active"]

\* _map_sport: None -> OTHER; SPORT_MAP.get(str(sport).lower(), OTHER)
_map_sport(sport) ==
    IF sport = PyNone THEN "other" ELSE get_default(SPORT_MAP, str_lower(sport), "other")

\* _map_sub_sport: None -> GENERIC; SUB_SPORT_MAP.get(str(.).lower(), GENERIC)
_map_sub_sport(sub_sport) ==
    IF sub_sport = PyNone
    THEN "generic"
    ELSE get_default(SUB_SPORT_MAP, str_lower(sub_sport), "generic")

\* trigger_map.get(str(lap_data.get('lap_trigger', '')).lower(), MANUAL)
trigger(lap_data) ==
    IF "lap_trigger" \in DOMAIN lap_data
    THEN get_default(trigger_map, str_lower(lap_data.lap_trigger), "manual")
    ELSE "manual"

\* intensity_map.get(str(lap_data.get('intensity', '')).lower(), ACTIVE)
intensity(lap_data) ==
    IF "intensity" \in DOMAIN lap_data
    THEN get_default(intensity_map, str_lower(lap_data.intensity), "active")
    ELSE "active"

(* --------------------------- files on disk ---------------------------- *)
\* Sample times are 10, 11 and 15; FarFuture lies 10^8 seconds after them.
FarFuture == 10 + 10 ^ 8
Users     == {"alice", "bob"}

SeqsUpTo(S, n) == UNION {[1..k -> S] : k \in 0..n}

FileId      == Message("file_id", [serial_number |-> Int_(7)])
SessionOk   == Message("session", [start_time |-> Datetime(10), timestamp |-> Datetime(15),
                                   total_ascent |-> Int_(0)])
SessionMsgs == {SessionOk,
                Message("session", [timestamp |-> Datetime(15)]),
                Message("session", [total_ascent |-> Int_(3)]),
                Message("session", [start_time |-> Datetime(10), total_ascent |-> Inf]),
                Message("session", [start_time |-> Datetime(15), timestamp |-> Datetime(10)]),
                Message("session", EmptyDict)}
LapOk       == Message("lap", [start_time |-> Datetime(10), timestamp |-> Datetime(11)])
LapMsgs     == {LapOk,
                Message("lap", [start_time |-> Datetime(10), message_index |-> Int_(0)]),
                Message("lap", [start_time |-> Datetime(11), message_index |-> Int_(5)]),
                Message("lap", [timestamp |-> Datetime(11), message_index |-> Int_(1)])}
RecordMsgs  == {Message("record", [timestamp |-> Datetime(10)]),
                Message("record", [timestamp |-> Datetime(11), elapsed_time |-> Int_(42)]),
                Message("record", [timestamp |-> Datetime(15)]),
                Message("record", [elapsed_time |-> Int_(42)]),
                Message("record", [timestamp |-> Datetime(FarFuture)])}
DeviceMsgs  == {Message("device_info", [device_index |-> Int_(0)]),
                Message("device_info", [device_index |-> Int_(1)]),
                Message("device_info", [device_index |-> PyNone]),
                Message("device_info", EmptyDict)}

\* A one-key field dict, empty when the message does not carry the field.
Absent    == [t |-> "absent", v |-> 0]
Opt(k, x) == IF x = Absent THEN EmptyDict ELSE (k :> x)

\* Session messages that report an aggregate under a preferred name, under
\* its fallback name, under both or under neither: 2.05 against 2.0 for the
\* altitudes and speeds, 90 against 85 for the cadences, and zeros.
DecimalPairs == {<<"enhanced_min_altitude", "min_altitude">>,
                 <<"enhanced_max_altitude", "max_altitude">>,
                 <<"enhanced_avg_speed", "avg_speed">>,
                 <<"enhanced_max_speed", "max_speed">>}
IntPairs     == {<<"avg_cadence", "avg_running_cadence">>,
                 <<"max_cadence", "max_running_cadence">>}
PairMsgs ==
    {Message("session", Opt(p[1], x) @@ Opt(p[2], y) @@ SessionOk.fields) :
        p \in DecimalPairs, x \in {Absent, Float(0), Float(205000)},
        y \in {Absent, Float(0), Float(200000)}}
    \cup
    {Message("session", Opt(p[1], x) @@ Opt(p[2], y) @@ SessionOk.fields) :
        p \in IntPairs, x \in {Absent, Int_(0), Int_(90)}, y \in {Absent, Int_(0), Int_(85)}}
PlainMsgs ==
    {Message("session", ("total_distance" :> x) @@ SessionOk.fields) :
        x \in {PyNone, Float(0), Float(1234567)}}
    \cup
    {Message("session", ("avg_heart_rate" :> x) @@ SessionOk.fields) :
        x \in {PyNone, Int_(0), Int_(150)}}

\* Record messages with and without a position: (45, 90) degrees, (0, 0),
\* none, and a latitude alone.
RouteMsgs == {Message("record", [timestamp |-> Datetime(10), position_lat |-> Int_(2 ^ 29),
                                 position_long |-> Int_(2 ^ 30)]),
              Message("record", [timestamp |-> Datetime(11), position_lat |-> Int_(0),
                                 position_long |-> Int_(0)]),
              Message("record", [timestamp |-> Datetime(15)]),
              Message("record", [timestamp |-> Datetime(11), position_lat |-> Int_(2 ^ 29),
                                 position_long |-> PyNone])}

\* A ride of five records, the second and the fourth without position.
Ride == <<FileId,
          Message("record", [timestamp |-> Datetime(10), position_lat |-> Int_(2 ^ 29),
                             position_long |-> Int_(2 ^ 30)]),
          Message("record", [timestamp |-> Datetime(11)]),
          Message("record", [timestamp |-> Datetime(12), position_lat |-> Int_(0),
                             position_long |-> Int_(0)]),
          Message("record", [timestamp |-> Datetime(13), position_lat |-> Int_(0 - 2 ^ 29)]),
          Message("record", [timestamp |-> Datetime(15), position_lat |-> Int_(12345678),
                             position_long |-> Int_(0 - 2 ^ 30)]),
          SessionOk>>

\* Generated file contents: one message kind varies, the rest is a plain
\* file_id plus session.
SessionFiles == {<<FileId, s>> : s \in SessionMsgs} \cup {<<SessionOk>>, <<FileId>>}
                    \cup {<<FileId, SessionOk, s>> : s \in SessionMsgs}
LapFiles     == {<<FileId>> \o laps \o <<SessionOk>> : laps \in SeqsUpTo(LapMsgs, MaxLaps)}
RecordFiles  == {<<FileId>> \o recs \o <<SessionOk>> : recs \in SeqsUpTo(RecordMsgs, MaxRecords)}
DeviceFiles  == {<<FileId>> \o devs \o <<SessionOk>> : devs \in SeqsUpTo(DeviceMsgs, MaxDevices)}
FieldFiles   == {<<FileId, s>> : s \in PairMsgs \cup PlainMsgs}
RouteFiles   == {<<FileId>> \o recs \o <<SessionOk>> : recs \in SeqsUpTo(RouteMsgs, MaxRecords)}
                    \cup {Ride}
GeneratedFiles == SessionFiles \cup LapFiles \cup RecordFiles \cup DeviceFiles
                      \cup FieldFiles \cup RouteFiles

\* The shared upload folder: a.fit and a_copy.fit hold the same bytes.
ActivityA == <<FileId, Message("record", [timestamp |-> Datetime(10)]), SessionOk>>
ActivityB == <<FileId, Message("session", [timestamp |-> Datetime(15)])>>
SharedFolder == ("a.fit" :> ActivityA) @@ ("a_copy.fit" :> ActivityA) @@ ("b.fit" :> ActivityB)
\* The upload folder of the management scenarios.
UploadFolder == ("a.fit" :> ActivityA) @@ ("b.fit" :> ActivityB)
Folders == {SharedFolder} \cup {("upload.fit" :> f) : f \in GeneratedFiles}

\* Number of parse_and_import calls made on a folder.
CallBudget(folder) == IF folder \in {SharedFolder, UploadFolder} THEN MaxCalls ELSE MaxFileCalls
Calls == 1..(IF MaxCalls > MaxFileCalls THEN MaxCalls ELSE MaxFileCalls)

\* The users who upload from a folder: a generated file has one uploader.
Uploaders(files) == IF files \in {SharedFolder, UploadFolder} THEN Users ELSE {"alice"}

(* ------------------------------ decoder ------------------------------- *)
\* parse_fit_file: the messages partitioned by kind; file_id, session and
\* workout keep the last message of their kind (<<>> when there is none).
FieldsOfKind(msgs, kind) ==
    LET OfKind(m) == m.name = kind
        sel == SelectSeq(msgs, OfKind)
    IN  [i \in 1..Len(sel) |-> sel[i].fields]

\* Variant: the first message of a kind is the one kept.
LastOrNone_First(s) == IF s = <<>> THEN <<>> ELSE <<s[1]>>

\* data[kind] = record_data, assigned for each message of the kind in turn.
LastOrNone(s) == IF s = <<>> THEN <<>> ELSE <<s[Len(s)]>>

parse_fit_file(msgs) ==
    [file_id |-> LastOrNone(FieldsOfKind(msgs, "file_id")),
     session |-> LastOrNone(FieldsOfKind(msgs, "session")),
     laps    |-> FieldsOfKind(msgs, "lap"),
     records |-> FieldsOfKind(msgs, "record"),
     devices |-> FieldsOfKind(msgs, "device_info"),
     workout |-> LastOrNone(FieldsOfKind(msgs, "workout"))]

(* ------------------------------ database ------------------------------ *)
EmptyTables == [imports |-> {}, workouts |-> {}, laps |-> {}, records |-> {}, devices |-> {}]

\* A table after the written rows are applied: a written row replaces the
\* stored row of the same primary key.
Upsert(table, rows) == {r \in table : \A w \in rows : w.id # r.id} \cup rows

\* Variant: the import table rejects a second completed row of a user and
\* hash, as under a unique constraint on (user, file_hash).
Commit_UniqueHash(tables, rows) ==
    LET Taken(r) == \E o \in tables.imports :
                        /\ o.id # r.id /\ o.user = r.user
                        /\ o.file_hash = r.file_hash /\ o.status = "completed"
    IN  [imports  |-> Upsert(tables.imports, {r \in rows.imports : ~Taken(r)}),
         workouts |-> Upsert(tables.workouts, rows.workouts),
         laps     |-> Upsert(tables.laps, rows.laps),
         records  |-> Upsert(tables.records, rows.records),
         devices  |-> Upsert(tables.devices, rows.devices)]

\* The committed tables after a transaction's rows are applied.
Commit(tables, rows) ==
    [imports  |-> Upsert(tables.imports, rows.imports),
     workouts |-> Upsert(tables.workouts, rows.workouts),
     laps     |-> Upsert(tables.laps, rows.laps),
     records  |-> Upsert(tables.records, rows.records),
     devices  |-> Upsert(tables.devices, rows.devices)]

\* Variant: the writes survive the exception (no enclosing atomic block).
ExitTables_NoRollback(tables, rows, e) == Commit(tables, rows)

\* Exit of an atomic block: commit on return, rollback on exception.
ExitTables(tables, rows, e) == IF e = NoExc THEN Commit(tables, rows) ELSE tables

\* DecimalField(max_digits=10, decimal_places=2): eight integer digits.
MaxDigits     == 10
DecimalPlaces == 2
FitsDecimal(n) ==
    LET limit == 10 ^ (MaxDigits - DecimalPlaces)
    IN  n < limit /\ n > 0 - limit

VARIABLES
    folder,    \* file name -> decoded messages of the file
    db,        \* committed tables
    tx,        \* per call: rows written inside its atomic block
    pc,        \* per call: idle, at the exit of the atomic block, or done
    args,      \* per call: user, file_path, check_duplicates
    exc,       \* per call: exception being propagated
    saved,     \* per call: the FitFileImport row versions it wrote, in order
    warnings,  \* per call: self.warnings of the service
    ret,       \* per call: what the caller got
    prior,     \* per call: calls that had finished when it was made
    clock,     \* readings of now() taken so far
    probe,     \* a direct call of a coercion utility: argument and outcome
    encode_raised,  \* per call: polyline.encode was called and raised
    view,      \* per call made through FitFileImportView.post: request, response
    edits,     \* deletions and admin changes made so far
    logbook,   \* strength workouts: owner, times, activity logs with set logs
    personal_records,  \* the PersonalRecord table
    completions        \* per strength workout: complete calls, sets seen by the last

strength == <<logbook, personal_records, completions>>
pipeline == <<folder, db, tx, pc, args, exc, saved, warnings, ret, prior, clock,
              encode_raised, view, edits, strength>>
uploads == <<folder, db, tx, pc, args, exc, saved, warnings, ret, prior, clock, probe,
             encode_raised, view, edits>>
vars == <<uploads, strength>>

NoArgs == [user |-> "", file_path |-> "", check_duplicates |-> FALSE]
NoRet  == [kind |-> "", workout_log |-> PyNone, fit_import |-> PyNone, exc |-> NoExc]
NoView == [posted |-> FALSE, session |-> PyNone, workout_log |-> PyNone,
           response |-> [status |-> ""]]
NoProbe == [fn |-> "", value |-> PyNone, precision |-> 0, result |-> PyNone, exc |-> NoExc]

\* No call has been made and the tables are empty.
NoCalls ==
    /\ db = EmptyTables
    /\ tx = [c \in Calls |-> EmptyTables]
    /\ pc = [c \in Calls |-> "idle"]
    /\ args = [c \in Calls |-> NoArgs]
    /\ exc = [c \in Calls |-> NoExc]
    /\ saved = [c \in Calls |-> <<>>]
    /\ warnings = [c \in Calls |-> <<>>]
    /\ ret = [c \in Calls |-> NoRet]
    /\ prior = [c \in Calls |-> {}]
    /\ clock = 0
    /\ encode_raised = [c \in Calls |-> FALSE]
    /\ view = [c \in Calls |-> NoView]
    /\ edits = 0

\* No strength workout exists.
NoStrength ==
    /\ logbook = <<>>
    /\ personal_records = {}
    /\ completions = <<>>

Init ==
    /\ folder \in Folders
    /\ NoCalls
    /\ NoStrength
    /\ probe = NoProbe

\* calculate_file_hash: the digest of the file's bytes, identified with the
\* content it digests (equal content, equal digest; no collisions).
calculate_file_hash(file_path) == folder[file_path]

\* Variant: the lookup matches the file name instead of the hash.
Duplicates_ByFilename(tables, user, file_path) ==
    {r \in tables.imports : /\ r.user = user
                            /\ r.original_filename = file_path
                            /\ r.status = "completed"}

\* Variant: the lookup matches a record of any status.
Duplicates_AnyStatus(tables, user, file_path) ==
    {r \in tables.imports : /\ r.user = user
                            /\ r.file_hash = calculate_file_hash(file_path)}

\* The rows behind FitFileImport.objects.filter(user, file_hash,
\* status='completed'), read from the committed tables.
Duplicates(tables, user, file_path) ==
    {r \in tables.imports : /\ r.user = user
                            /\ r.file_hash = calculate_file_hash(file_path)
                            /\ r.status = "completed"}

\* .first() under Meta.ordering = ['-uploaded_at']: a newest row.
First(rows) == {r \in rows : \A o \in rows : o.uploaded_at <= r.uploaded_at}

(* --------------------------- parse_and_import ------------------------- *)
\* The statements between the duplicate lookup and the exit of the atomic
\* block touch only rows of the running call, so they are composed as
\* operators on the call's local state: the rows written so far, the
\* exception raised, the rollback mark of the atomic block, and the
\* FitFileImport versions written.
NewRun == [tx |-> EmptyTables, exc |-> NoExc, needs_rollback |-> FALSE, saved |-> <<>>,
           warnings |-> <<>>, encode_raised |-> FALSE]

\* Rows a query of the running call sees: committed rows and its own writes.
Visible(tables, st) == Commit(tables, st.tx)

\* `at`: the statement of parse_and_import that raises.
Raise(st, e, at) ==
    [st EXCEPT !.exc = [e EXCEPT !.at = at], !.needs_rollback = @ \/ e.orm]

IntegrityError(msg) == Exception("IntegrityError", msg, TRUE)
StorageError == Exception("OperationalError", "storage error", TRUE)

\* Variant: the short-circuit branch stamps the record it found.
DuplicateWrites_MarkExisting(existing) == <<[existing EXCEPT !.status = "duplicate"]>>

\* Row versions the short-circuit branch writes before it returns: none.
DuplicateWrites(existing) == <<>>

\* Variant: status is left to the model default, 'pending'.
NewImport_DefaultStatus(user, id, file_path, file_id, now) ==
    [id                |-> id,
     user              |-> user,
     original_filename |-> file_path,
     file_hash         |-> calculate_file_hash(file_path),
     fit_serial_number |-> str_get(file_id, "serial_number", ""),
     fit_manufacturer  |-> str_get(file_id, "manufacturer", ""),
     fit_type          |-> str_get(file_id, "type", "activity"),
     status            |-> "pending",
     error_message     |-> "",
     uploaded_at       |-> now,
     processed_at      |-> PyNone,
     workout_log       |-> PyNone]

\* The FitFileImport row created in 'processing' status.
NewImport(user, id, file_path, file_id, now) ==
    [id                |-> id,
     user              |-> user,
     original_filename |-> file_path,
     file_hash         |-> calculate_file_hash(file_path),
     fit_serial_number |-> str_get(file_id, "serial_number", ""),
     fit_manufacturer  |-> str_get(file_id, "manufacturer", ""),
     fit_type          |-> str_get(file_id, "type", "activity"),
     status            |-> "processing",
     error_message     |-> "",
     uploaded_at       |-> now,
     processed_at      |-> PyNone,
     workout_log       |-> PyNone]

\* Variant: the missing session surfaces as the KeyError of a later lookup.
SessionCheck_KeyError(data) ==
    IF data.session = <<>> \/ DOMAIN data.session[1] = {}
    THEN Exception("KeyError", "'session'", FALSE)
    ELSE NoExc

\* `if not data['session']: raise ValueError(...)`: no session message, or
\* one without fields.
SessionCheck(data) ==
    IF data.session = <<>> \/ DOMAIN data.session[1] = {}
    THEN Exception("ValueError", "FIT file does not contain session data", FALSE)
    ELSE NoExc

\* The first exception of a sequence of evaluations, NoExc if none raised.
FirstRaised(excs) ==
    IF \E i \in DOMAIN excs : excs[i] # NoExc
    THEN excs[CHOOSE i \in DOMAIN excs : excs[i] # NoExc /\ \A j \in 1..(i - 1) : excs[j] = NoExc]
    ELSE NoExc

\* Variant: a coordinate of 0 counts as missing.
Positioned_Truthy(record) ==
    Truthy(get(record, "position_lat")) /\ Truthy(get(record, "position_long"))

\* `lat_semi is not None and lng_semi is not None`
Positioned(record) ==
    get(record, "position_lat") # PyNone /\ get(record, "position_long") # PyNone

\* (lat, lng) in degrees of records that have both.
InDegrees(sel) ==
    [i \in 1..Len(sel) |-> <<SemicirclesToDegrees(sel[i].position_lat.v),
                             SemicirclesToDegrees(sel[i].position_long.v)>>]

\* The list `coordinates`: (lat, lng) in degrees of the positioned records;
\* empty when there is no record.
Coordinates(records) == InDegrees(SelectSeq(records, Positioned))

\* n + r / d rounded to an integer, a tie going away from zero.
HalfAway(n, r, d) ==
    IF n >= 0
    THEN n + (IF 2 * r >= d THEN 1 ELSE 0)
    ELSE n + (IF 2 * r > d THEN 1 ELSE 0)

\* (whole + t / 2^29) degrees * 1e5, rounded, for t the scaled fraction.
Scaled(whole, t) == HalfAway(whole * Unit + t.q, t.r, DegreesDen)

\* polyline's rounding of degrees * 1e5: half away from zero.
E5(deg) == Scaled(deg.v, Times(deg.frac, Unit, DegreesDen))

\* An encoded polyline, as the differences its string spells.
Polyline(deltas) == [t |-> "polyline", v |-> 0, deltas |-> deltas]

\* The difference of each point to the point before (the first to 0, 0).
Deltas(points) ==
    [i \in 1..Len(points) |->
        <<points[i][1] - (IF i = 1 THEN 0 ELSE points[i - 1][1]),
          points[i][2] - (IF i = 1 THEN 0 ELSE points[i - 1][2])>>]

\* polyline.encode(coordinates): the string spells, point by point, the
\* difference of the rounded coordinates to those of the point before.
encode(coordinates) ==
    Polyline(Deltas([i \in 1..Len(coordinates) |->
                        <<E5(coordinates[i][1]), E5(coordinates[i][2])>>]))

\* Variant: a failure of the encoder is swallowed without a warning.
EncodeFailure_Silent(st, data, encode_ok) ==
    IF Coordinates(data.records) # <<>> /\ ~encode_ok
    THEN [st EXCEPT !.encode_raised = TRUE]
    ELSE st

\* `except Exception as e: self.warnings.append(...)` around
\* polyline.encode(coordinates), reached when there are coordinates.
EncodeFailure(st, data, encode_ok) ==
    IF Coordinates(data.records) # <<>> /\ ~encode_ok
    THEN [st EXCEPT !.encode_raised = TRUE,
                    !.warnings = Append(@, <<"Failed to encode map polyline", "">>)]
    ELSE st

\* map_polyline_str: None unless there are coordinates and the encoder
\* returns.
MapPolyline(coordinates, encode_ok) ==
    IF coordinates = <<>> \/ ~encode_ok THEN PyNone ELSE encode(coordinates)

\* Exception of `lat_semi * self.SEMICIRCLE_TO_DEGREES` in the loop over the
\* records (not inside the try around polyline.encode).
Raised_coordinates(records) ==
    FirstRaised([i \in 1..Len(records) |->
        IF Positioned(records[i])
        THEN FirstRaised(<<Raised_convert_semicircles_to_degrees(records[i].position_lat),
                           Raised_convert_semicircles_to_degrees(records[i].position_long)>>)
        ELSE NoExc])

\* The WorkoutLog row built from the session message.  Of the aggregates
\* passed through _safe_decimal(session.get(...)) and
\* _safe_int(session.get(...)) alone, total_distance, total_ascent and
\* avg_heart_rate are kept.
NewWorkout(user, id, data, encode_ok) ==
    LET session      == data.session[1]
        start_time   == IF ~Truthy(get(session, "start_time"))
                        THEN get(session, "timestamp")
                        ELSE get(session, "start_time")
        first_record == IF data.records # <<>> THEN data.records[1] ELSE EmptyDict
        last_record  == IF data.records # <<>> THEN data.records[Len(data.records)]
                        ELSE EmptyDict
    IN  [id             |-> id,
         user           |-> user,
         session        |-> PyNone,
         external_id    |-> str_get(data.file_id[1], "serial_number", ""),
         sport          |-> _map_sport(get(session, "sport")),
         sub_sport      |-> _map_sub_sport(get(session, "sub_sport")),
         started_at     |-> start_time,
         ended_at       |-> get(session, "timestamp"),
         map_polyline   |-> MapPolyline(Coordinates(data.records), encode_ok),
         total_distance |-> _safe_decimal(get(session, "total_distance"), 2),
         total_ascent   |-> _safe_int(get(session, "total_ascent")),
         min_altitude   |-> _safe_decimal(Or(get(session, "enhanced_min_altitude"),
                                             get(session, "min_altitude")), 2),
         max_altitude   |-> _safe_decimal(Or(get(session, "enhanced_max_altitude"),
                                             get(session, "max_altitude")), 2),
         avg_heart_rate |-> _safe_int(get(session, "avg_heart_rate")),
         avg_speed      |-> _safe_decimal(Or(get(session, "enhanced_avg_speed"),
                                             get(session, "avg_speed")), 3),
         max_speed      |-> _safe_decimal(Or(get(session, "enhanced_max_speed"),
                                             get(session, "max_speed")), 3),
         avg_cadence    |-> _safe_int(Or(get(session, "avg_cadence"),
                                         get(session, "avg_running_cadence"))),
         max_cadence    |-> _safe_int(Or(get(session, "max_cadence"),
                                         get(session, "max_running_cadence"))),
         start_lat      |-> _convert_semicircles_to_degrees(get(first_record, "position_lat")),
         start_long     |-> _convert_semicircles_to_degrees(get(first_record, "position_long")),
         end_lat        |-> _convert_semicircles_to_degrees(get(last_record, "position_lat")),
         end_long       |-> _convert_semicircles_to_degrees(get(last_record, "position_long"))]

\* Exception raised while the arguments of WorkoutLog.objects.create are
\* evaluated, in source order.
Raised_workout_arguments(data) ==
    LET session      == data.session[1]
        first_record == IF data.records # <<>> THEN data.records[1] ELSE EmptyDict
        last_record  == IF data.records # <<>> THEN data.records[Len(data.records)]
                        ELSE EmptyDict
    IN  FirstRaised(<<
            Raised_safe_int(get(session, "total_ascent")),
            Raised_safe_int(get(session, "avg_heart_rate")),
            Raised_safe_int(Or(get(session, "avg_cadence"),
                               get(session, "avg_running_cadence"))),
            Raised_safe_int(Or(get(session, "max_cadence"),
                               get(session, "max_running_cadence"))),
            Raised_convert_semicircles_to_degrees(get(first_record, "position_lat")),
            Raised_convert_semicircles_to_degrees(get(first_record, "position_long")),
            Raised_convert_semicircles_to_degrees(get(last_record, "position_lat")),
            Raised_convert_semicircles_to_degrees(get(last_record, "position_long"))>>)

\* WorkoutLog.objects.create(...), subject to NOT NULL started_at.
WorkoutLog_create(st, row) ==
    IF row.started_at = PyNone
    THEN Raise(st, IntegrityError("NOT NULL constraint failed: workout_log.started_at"),
               "workout")
    ELSE [st EXCEPT !.tx.workouts = @ \cup {row}]

\* _create_workout_log: the coordinates are collected and encoded, the
\* arguments are evaluated, then the row is created.
_create_workout_log(st, user, id, data, encode_ok) ==
    IF Raised_coordinates(data.records) # NoExc
    THEN Raise(st, Raised_coordinates(data.records), "workout")
    ELSE IF Raised_workout_arguments(data) # NoExc
    THEN Raise(EncodeFailure(st, data, encode_ok), Raised_workout_arguments(data), "workout")
    ELSE WorkoutLog_create(EncodeFailure(st, data, encode_ok),
                           NewWorkout(user, id, data, encode_ok))

\* Variant: the lap number is taken from the message's own index field.
NewLap_FromMessageIndex(id, lap_data, lap_number) ==
    [id          |-> <<id, lap_number>>,
     workout_log |-> id,
     lap_number  |-> get_default(lap_data, "message_index", Int_(lap_number)).v,
     lap_trigger |-> trigger(lap_data),
     intensity   |-> intensity(lap_data),
     start_time  |-> get(lap_data, "start_time"),
     end_time    |-> get(lap_data, "timestamp"),
     min_altitude |-> _safe_decimal(get(lap_data, "enhanced_min_altitude"), 2),
     max_altitude |-> _safe_decimal(get(lap_data, "enhanced_max_altitude"), 2),
     avg_speed    |-> _safe_decimal(get(lap_data, "enhanced_avg_speed"), 3),
     max_speed    |-> _safe_decimal(get(lap_data, "enhanced_max_speed"), 3)]

\* The LapLog row for the lap message at position lap_number.
NewLap(id, lap_data, lap_number) ==
    [id          |-> <<id, lap_number>>,
     workout_log |-> id,
     lap_number  |-> lap_number,
     lap_trigger |-> trigger(lap_data),
     intensity   |-> intensity(lap_data),
     start_time  |-> get(lap_data, "start_time"),
     end_time    |-> get(lap_data, "timestamp"),
     min_altitude |-> _safe_decimal(get(lap_data, "enhanced_min_altitude"), 2),
     max_altitude |-> _safe_decimal(get(lap_data, "enhanced_max_altitude"), 2),
     avg_speed    |-> _safe_decimal(get(lap_data, "enhanced_avg_speed"), 3),
     max_speed    |-> _safe_decimal(get(lap_data, "enhanced_max_speed"), 3)]

\* _create_lap_log: LapLog.objects.create, subject to NOT NULL start_time
\* and unique (workout_log, lap_number).
_create_lap_log(st, tables, id, lap_data, lap_number) ==
    LET row   == NewLap(id, lap_data, lap_number)
        clash == \E l \in Visible(tables, st).laps :
                     l.workout_log = row.workout_log /\ l.lap_number = row.lap_number
    IN  IF row.start_time = PyNone \/ clash
        THEN Raise(st, IntegrityError("constraint failed: lap_log"), "laps")
        ELSE [st EXCEPT !.tx.laps = @ \cup {row}]

\* `for i, lap_data in enumerate(data['laps'], 1)`, left by an exception.
RECURSIVE ForLaps(_, _, _, _, _)
ForLaps(st, tables, id, laps, i) ==
    IF st.exc # NoExc \/ i > Len(laps)
    THEN st
    ELSE ForLaps(_create_lap_log(st, tables, id, laps[i], i), tables, id, laps, i + 1)

\* Variant: records with a timestamp are kept whatever the first record has.
KeptRecords_AnyStart(records) ==
    LET HasTimestamp(r) == Truthy(get(r, "timestamp"))
    IN  SelectSeq(records, HasTimestamp)

\* The records _create_record_data_points keeps: those with a timestamp,
\* and none at all unless the first record has one.
KeptRecords(records) ==
    LET HasTimestamp(r) == Truthy(get(r, "timestamp"))
    IN  IF records # <<>> /\ Truthy(get(records[1], "timestamp"))
        THEN SelectSeq(records, HasTimestamp)
        ELSE <<>>

\* Variant: a decoded elapsed_time field takes precedence.
Elapsed_FromField(record, start_time) ==
    IF "elapsed_time" \in DOMAIN record
    THEN record.elapsed_time.v
    ELSE get(record, "timestamp").v - start_time.v

\* elapsed = (timestamp - start_time).total_seconds()
Elapsed(record, start_time) == get(record, "timestamp").v - start_time.v

\* The RecordDataPoint rows handed to bulk_create.
NewRecordPoints(id, records) ==
    LET kept == KeptRecords(records)
    IN  {[id              |-> <<id, n>>,
          workout_log     |-> id,
          timestamp       |-> get(kept[n], "timestamp"),
          elapsed_seconds |-> Elapsed(kept[n], get(records[1], "timestamp"))]
         : n \in 1..Len(kept)}

\* _create_record_data_points: nothing is sent to the database when there
\* is no data point; elapsed_seconds has to fit its DecimalField.  Not
\* reached when an earlier statement raised.
_create_record_data_points(st, id, records) ==
    IF st.exc # NoExc
    THEN st
    ELSE IF \E r \in NewRecordPoints(id, records) : ~FitsDecimal(r.elapsed_seconds)
        THEN Raise(st, Exception("InvalidOperation", "quantize result has too many digits",
                                 TRUE), "records")
        ELSE [st EXCEPT !.tx.records = @ \cup NewRecordPoints(id, records)]

\* The DeviceInfo row for the n-th device_info message.
NewDevice(id, device_data, n) ==
    [id           |-> <<id, n>>,
     workout_log  |-> id,
     device_index |-> str_get(device_data, "device_index", "unknown")]

\* Variant: the table has no uniqueness constraint.
_create_device_info_NoUnique(st, tables, id, device_data, n) ==
    [st EXCEPT !.tx.devices = @ \cup {NewDevice(id, device_data, n)}]

\* _create_device_info: DeviceInfo.objects.create, subject to unique
\* (workout_log, device_index).
_create_device_info(st, tables, id, device_data, n) ==
    LET row   == NewDevice(id, device_data, n)
        clash == \E d \in Visible(tables, st).devices :
                     d.workout_log = row.workout_log /\ d.device_index = row.device_index
    IN  IF clash
        THEN Raise(st, IntegrityError("UNIQUE constraint failed: device_info"), "devices")
        ELSE [st EXCEPT !.tx.devices = @ \cup {row}]

\* `for device_data in data['devices']`, left by an exception.
RECURSIVE ForDevices(_, _, _, _, _)
ForDevices(st, tables, id, devices, n) ==
    IF st.exc # NoExc \/ n > Len(devices)
    THEN st
    ELSE ForDevices(_create_device_info(st, tables, id, devices[n], n),
                    tables, id, devices, n + 1)

\* fit_import: the import row the call created, as its transaction has it.
OwnImport(st, id) == CHOOSE r \in st.tx.imports : r.id = id

\* Variant: processed_at is not stamped.
CompletedImport_NoStamp(fit_import, workout_id, now) ==
    [fit_import EXCEPT !.workout_log = Int_(workout_id), !.status = "completed"]

\* fit_import after the three assignments of the success path.
CompletedImport(fit_import, workout_id, now) ==
    [fit_import EXCEPT !.workout_log = Int_(workout_id),
                       !.status = "completed",
                       !.processed_at = Datetime(now)]

\* fit_import after the two assignments of the except branch.
FailedImport(fit_import, e) ==
    [fit_import EXCEPT !.status = "failed", !.error_message = e.msg]

\* fit_import.save(): UPDATE of the row with fit_import's primary key.
Save(st, obj) ==
    [st EXCEPT !.tx.imports = Upsert(@, {obj}), !.saved = Append(@, obj)]

\* The import record is linked and marked completed.  The save is the one
\* statement of the try block whose failure no file content causes: it
\* fails when the storage does.  Not reached when an earlier statement raised.
UpdateImport(st, id, now, storage_ok) ==
    IF st.exc # NoExc
    THEN st
    ELSE IF storage_ok
    THEN Save(st, CompletedImport(OwnImport(st, id), id, now))
    ELSE Raise(st, StorageError, "update")

\* The try block: each statement runs unless an earlier one raised.
TryBlock(st, tables, user, id, data, now, storage_ok, encode_ok) ==
    UpdateImport(
        ForDevices(
            _create_record_data_points(
                ForLaps(_create_workout_log(st, user, id, data, encode_ok),
                        tables, id, data.laps, 1),
                id, data.records),
            tables, id, data.devices, 1),
        id, now, storage_ok)

\* The except branch, entered when the try block raised: mark the import
\* record failed and re-raise.  A save in a block marked for rollback raises
\* TransactionManagementError.
ExceptBranch(st, id) ==
    IF st.exc = NoExc
    THEN st
    ELSE IF st.needs_rollback
    THEN [st EXCEPT !.exc = [Exception("TransactionManagementError",
                                       "An error occurred in the current transaction", TRUE)
                             EXCEPT !.at = st.exc.at]]
    ELSE Save(st, FailedImport(OwnImport(st, id), st.exc))

\* FitFileImport.objects.create(...): the first write of the run.
Created(fit_import) ==
    [NewRun EXCEPT !.tx.imports = {fit_import}, !.saved = <<fit_import>>]

\* parse_and_import after the duplicate lookup: decoding, the session
\* check, the creation of the import record, the try block and its except
\* branch.  The result is the call's local state at the exit of the block.
ImportFile(tables, user, id, file_path, now, storage_ok, encode_ok) ==
    LET data == parse_fit_file(folder[file_path])
    IN  IF SessionCheck(data) # NoExc
        THEN Raise(NewRun, SessionCheck(data), "parse")
        ELSE IF data.file_id = <<>>
        THEN Raise(NewRun, Exception("AttributeError",
                       "'NoneType' object has no attribute 'get'", FALSE), "create")
        ELSE ExceptBranch(
                 TryBlock(Created(NewImport(user, id, file_path, data.file_id[1], now)),
                          tables, user, id, data, now, storage_ok, encode_ok),
                 id)

\* A caller invokes parse_and_import(file_path, check_duplicates) on a
\* service built for `user`.  The atomic block is entered, the duplicate
\* lookup reads the committed tables, and the call runs up to the exit of
\* the block: either the short-circuit return or the import of the file.
parse_and_import(c, user, file_path, check_duplicates) ==
    /\ pc[c] = "idle"
    /\ c <= CallBudget(folder)
    /\ \A o \in Calls : o < c => pc[o] # "idle"
    /\ pc' = [pc EXCEPT ![c] = "exit"]
    /\ args' = [args EXCEPT ![c] = [user |-> user, file_path |-> file_path,
                                    check_duplicates |-> check_duplicates]]
    /\ prior' = [prior EXCEPT ![c] = {o \in Calls : pc[o] = "done"}]
    /\ LET dups == Duplicates(db, user, file_path)
       IN  IF check_duplicates /\ dups # {}
           THEN \E existing \in First(dups) :
                  /\ warnings' = [warnings EXCEPT ![c] =
                        Append(@, <<"Duplicate file detected", existing.original_filename>>)]
                  /\ ret' = [ret EXCEPT ![c] = [kind |-> "returned",
                                                workout_log |-> existing.workout_log,
                                                fit_import |-> Int_(existing.id),
                                                exc |-> NoExc]]
                  /\ tx' = [tx EXCEPT ![c].imports =
                        {DuplicateWrites(existing)[i] :
                            i \in DOMAIN DuplicateWrites(existing)}]
                  /\ saved' = [saved EXCEPT ![c] = DuplicateWrites(existing)]
                  /\ UNCHANGED <<exc, clock, encode_raised>>
           ELSE \E storage_ok \in BOOLEAN, encode_ok \in BOOLEAN :
                  \E st \in {ImportFile(db, user, c, file_path, clock + 1, storage_ok,
                                        encode_ok)} :
                      /\ tx' = [tx EXCEPT ![c] = st.tx]
                      /\ exc' = [exc EXCEPT ![c] = st.exc]
                      /\ saved' = [saved EXCEPT ![c] = st.saved]
                      /\ ret' = IF st.exc = NoExc
                                THEN [ret EXCEPT ![c] = [kind |-> "returned",
                                                         workout_log |-> Int_(c),
                                                         fit_import |-> Int_(c),
                                                         exc |-> NoExc]]
                                ELSE ret
                      /\ clock' = clock + 1
                      /\ warnings' = [warnings EXCEPT ![c] = @ \o st.warnings]
                      /\ encode_raised' = [encode_raised EXCEPT ![c] = st.encode_raised]
    /\ UNCHANGED <<folder, db, probe, strength>>

\* A direct call of the service.
ParseAndImport(c, user, file_path, check_duplicates) ==
    /\ parse_and_import(c, user, file_path, check_duplicates)
    /\ UNCHANGED <<view, edits>>

\* Exit of @transaction.atomic; control is back with the caller, with the
\* returned pair or the propagated exception.
AtomicExit(c) ==
    /\ pc[c] = "exit"
    /\ db' = ExitTables(db, tx[c], exc[c])
    /\ IF exc[c] = NoExc
       THEN UNCHANGED ret
       ELSE ret' = [ret EXCEPT ![c] = [kind |-> "raised", workout_log |-> PyNone,
                                     fit_import |-> PyNone, exc |-> exc[c]]]
    /\ tx' = [tx EXCEPT ![c] = EmptyTables]
    /\ exc' = [exc EXCEPT ![c] = NoExc]
    /\ pc' = [pc EXCEPT ![c] = "done"]
    /\ UNCHANGED <<folder, args, saved, warnings, prior, clock, probe, encode_raised,
                   view, edits, strength>>

Next ==
    \E c \in Calls :
        \/ \E user \in Uploaders(folder), file_path \in DOMAIN folder, check_duplicates \in BOOLEAN :
               ParseAndImport(c, user, file_path, check_duplicates)
        \/ AtomicExit(c)

Spec == Init /\ [][Next]_vars

(* ------------------ the upload view, deletion, the admin --------------- *)
\* Deletions and admin changes made on the shared folder's data.
MaxEdits == 1

\* Planned sessions a request can name.
Sessions == {Int_(1), Int_(2)}

\* FitFileImportView.post up to the exit of parse_and_import's atomic block:
\* the service is called with check_duplicates=True.  workout_log is the
\* object the service returns: the row it created, or the one the existing
\* import record links to, as read inside the block.
Post(c, user, file_path, session) ==
    /\ parse_and_import(c, user, file_path, TRUE)
    /\ view' = [view EXCEPT ![c] =
          [posted      |-> TRUE,
           session     |-> session,
           workout_log |-> IF ret'[c].kind = "returned" /\ ret'[c].workout_log # PyNone
                           THEN CHOOSE w \in db.workouts \cup tx'[c].workouts :
                                    w.id = ret'[c].workout_log.v
                           ELSE PyNone,
           response    |-> [status |-> ""]]]
    /\ UNCHANGED edits

\* workout_log.save(): UPDATE of the row with the object's primary key, an
\* INSERT when no row has it.
SaveWorkout(tables, workout_log) ==
    [tables EXCEPT !.workouts = Upsert(@, {workout_log})]

\* Variant: only a workout the request created is linked to the session.
Respond_NewOnly(c) ==
    /\ pc[c] = "done" /\ view[c].posted /\ view[c].response.status = ""
    /\ IF ret[c].kind = "returned"
       THEN /\ db' = IF view[c].session # PyNone /\ view[c].workout_log # PyNone
                        /\ ~(\E i \in 1..Len(warnings[c]) :
                                warnings[c][i][1] = "Duplicate file detected")
                     THEN SaveWorkout(db, [view[c].workout_log
                                              EXCEPT !.session = view[c].session])
                     ELSE db
            /\ view' = [view EXCEPT ![c].response =
                  [status |-> "success", code |-> 201,
                   import_id |-> ret[c].fit_import,
                   workout_log |-> ret[c].workout_log,
                   warnings |-> warnings[c]]]
       ELSE /\ db' = db
            /\ view' = [view EXCEPT ![c].response =
                  [status |-> "error",
                   code |-> IF ret[c].exc.type = "ValueError" THEN 400 ELSE 500]]
    /\ UNCHANGED <<folder, tx, pc, args, exc, saved, warnings, ret, prior, clock, probe,
                   encode_raised, edits, strength>>

\* The rest of FitFileImportView.post: the link to the planned session and
\* the response.
Respond(c) ==
    /\ pc[c] = "done" /\ view[c].posted /\ view[c].response.status = ""
    /\ IF ret[c].kind = "returned"
       THEN /\ db' = IF view[c].session # PyNone /\ view[c].workout_log # PyNone
                     THEN SaveWorkout(db, [view[c].workout_log
                                              EXCEPT !.session = view[c].session])
                     ELSE db
            /\ view' = [view EXCEPT ![c].response =
                  [status |-> "success", code |-> 201,
                   import_id |-> ret[c].fit_import,
                   workout_log |-> ret[c].workout_log,
                   warnings |-> warnings[c]]]
       ELSE /\ db' = db
            /\ view' = [view EXCEPT ![c].response =
                  [status |-> "error",
                   code |-> IF ret[c].exc.type = "ValueError" THEN 400 ELSE 500]]
    /\ UNCHANGED <<folder, tx, pc, args, exc, saved, warnings, ret, prior, clock, probe,
                   encode_raised, edits, strength>>

\* Variant: the import records go with the workout (CASCADE).
DestroyWorkout_Cascade(user, id) ==
    /\ edits < MaxEdits
    /\ \E w \in db.workouts : w.id = id /\ w.user = user
    /\ db' = [imports  |-> {r \in db.imports : r.workout_log # Int_(id)},
              workouts |-> {w \in db.workouts : w.id # id},
              laps     |-> {l \in db.laps : l.workout_log # id},
              records  |-> {r \in db.records : r.workout_log # id},
              devices  |-> {d \in db.devices : d.workout_log # id}]
    /\ edits' = edits + 1
    /\ UNCHANGED <<folder, tx, pc, args, exc, saved, warnings, ret, prior, clock, probe,
                   encode_raised, view, strength>>

\* WorkoutLog.delete() (WorkoutLogViewSet.destroy): the laps, record points
\* and device rows go with the workout (CASCADE), the import records that
\* link to it keep their row with a null link (SET_NULL).
DestroyWorkout(user, id) ==
    /\ edits < MaxEdits
    /\ \E w \in db.workouts : w.id = id /\ w.user = user
    /\ db' = [imports  |-> {IF r.workout_log = Int_(id)
                            THEN [r EXCEPT !.workout_log = PyNone] ELSE r
                            : r \in db.imports},
              workouts |-> {w \in db.workouts : w.id # id},
              laps     |-> {l \in db.laps : l.workout_log # id},
              records  |-> {r \in db.records : r.workout_log # id},
              devices  |-> {d \in db.devices : d.workout_log # id}]
    /\ edits' = edits + 1
    /\ UNCHANGED <<folder, tx, pc, args, exc, saved, warnings, ret, prior, clock, probe,
                   encode_raised, view, strength>>

\* _bulk_delete_workouts(user, workout_ids) of the workout admin page: the
\* rows of the user's workouts among workout_ids are deleted table by
\* table, the import records that link to them included.
BulkDeleteWorkouts(user, workout_ids) ==
    /\ edits < MaxEdits
    /\ LET workout_pks == {w.id : w \in {x \in db.workouts :
                                             x.user = user /\ x.id \in workout_ids}}
       IN  /\ workout_pks # {}
           /\ db' = [imports  |-> {r \in db.imports :
                                     r.workout_log \notin {Int_(k) : k \in workout_pks}},
                     workouts |-> {w \in db.workouts : w.id \notin workout_pks},
                     laps     |-> {l \in db.laps : l.workout_log \notin workout_pks},
                     records  |-> {r \in db.records : r.workout_log \notin workout_pks},
                     devices  |-> {d \in db.devices : d.workout_log \notin workout_pks}]
    /\ edits' = edits + 1
    /\ UNCHANGED <<folder, tx, pc, args, exc, saved, warnings, ret, prior, clock, probe,
                   encode_raised, view, strength>>

\* The change form of FitFileImportAdmin: status is an editable field.
IMPORT_STATUS_CHOICES == {"pending", "processing", "completed", "failed", "duplicate"}
AdminChangeStatus(id, status) ==
    /\ edits < MaxEdits
    /\ \E r \in db.imports : r.id = id /\ r.status # status
    /\ db' = [db EXCEPT !.imports = {IF r.id = id THEN [r EXCEPT !.status = status] ELSE r
                                     : r \in db.imports}]
    /\ edits' = edits + 1
    /\ UNCHANGED <<folder, tx, pc, args, exc, saved, warnings, ret, prior, clock, probe,
                   encode_raised, view, strength>>

\* The requests of the management scenarios are served one at a time: no
\* import is inside its atomic block and no upload waits for its response.
\* The interleavings of concurrent imports are those of Spec.
Quiescent ==
    \A o \in Calls : /\ pc[o] \in {"idle", "done"}
                     /\ pc[o] = "done" /\ view[o].posted => view[o].response.status # ""

InitManage ==
    /\ folder = UploadFolder
    /\ NoCalls
    /\ NoStrength
    /\ probe = NoProbe

\* Direct calls of the service, deletions and admin changes.
NextManage ==
    \/ /\ Quiescent
       /\ \E c \in Calls, user \in Users, file_path \in DOMAIN folder,
             check_duplicates \in BOOLEAN :
               ParseAndImport(c, user, file_path, check_duplicates)
    \/ \E c \in Calls : AtomicExit(c)
    \/ /\ Quiescent
       /\ \/ \E user \in Users, id \in Calls : DestroyWorkout(user, id)
          \/ \E user \in Users, workout_ids \in SUBSET Calls :
                BulkDeleteWorkouts(user, workout_ids)
          \/ \E id \in Calls, status \in IMPORT_STATUS_CHOICES : AdminChangeStatus(id, status)

SpecManage == InitManage /\ [][NextManage]_vars

\* Uploads through the view, and deletions through the API.
NextView ==
    \/ /\ Quiescent
       /\ \E c \in Calls, user \in Users, file_path \in DOMAIN folder,
             session \in Sessions \cup {PyNone} : Post(c, user, file_path, session)
    \/ \E c \in Calls : AtomicExit(c) \/ Respond(c)
    \/ /\ Quiescent
       /\ \E user \in Users, id \in Calls : DestroyWorkout(user, id)

SpecView == InitManage /\ [][NextView]_vars

(* --------------------------- personal records ------------------------- *)
MaxSets        == 2   \* set logs recorded over all strength workouts
MaxCompletions == 2   \* complete calls over all strength workouts

Workouts  == {1, 2}
Exercise(n) == [t |-> "exercise", v |-> n]
Exercises == {Exercise(1), Exercise(2)}

\* Set logs a client records: completed sets of 60 kg and 80 kg, and sets
\* without a weight, with no reps, and not completed.
Kg(k) == Decimal(k * Unit)
SoundSets  == {[weight |-> Kg(k), reps |-> Int_(5), is_completed |-> TRUE] : k \in {60, 80}}
BarrenSets == {[weight |-> PyNone, reps |-> Int_(5), is_completed |-> TRUE],
               [weight |-> Kg(80), reps |-> Int_(0), is_completed |-> TRUE],
               [weight |-> Kg(80), reps |-> Int_(5), is_completed |-> FALSE]}
LoggedSets == (Exercises \X SoundSets) \cup ({Exercise(1)} \X BarrenSets)
                \cup {<<PyNone, [weight |-> Kg(80), reps |-> Int_(5), is_completed |-> TRUE]>>}

\* A WorkoutLog created by manual entry: started_at is required.
ManualWorkout(user, id) ==
    [id |-> id, user |-> user, started_at |-> Datetime(10 * id), ended_at |-> PyNone,
     total_elapsed_time |-> PyNone, activity_logs |-> <<>>]

\* The number of set logs of a workout, and of all workouts.
SetCount(workout) ==
    Cardinality({<<i, j>> \in (1..MaxSets + 1) \X (1..MaxSets + 1) :
                    /\ i \in DOMAIN workout.activity_logs
                    /\ j \in DOMAIN workout.activity_logs[i].set_logs})
TotalSets ==
    Cardinality({<<w, i, j>> \in Workouts \X (1..MaxSets + 1) \X (1..MaxSets + 1) :
                    /\ i \in DOMAIN logbook[w].activity_logs
                    /\ j \in DOMAIN logbook[w].activity_logs[i].set_logs})
TotalCompletions ==
    Cardinality({<<w, k>> \in Workouts \X (1..MaxCompletions + 1) : k <= completions[w].n})

\* ActivityLogViewSet.add_set on the workout's activity log of the exercise,
\* which is created with the first set (exercise None: a manual activity).
LogSet(w, exercise, set_log) ==
    /\ TotalSets < MaxSets
    /\ LET logs == logbook[w].activity_logs
       IN  logbook' = [logbook EXCEPT ![w].activity_logs =
              IF \E i \in DOMAIN logs : logs[i].exercise = exercise
              THEN [i \in DOMAIN logs |->
                      IF logs[i].exercise = exercise
                      THEN [logs[i] EXCEPT !.set_logs = Append(@, set_log)]
                      ELSE logs[i]]
              ELSE Append(logs, [exercise |-> exercise, set_logs |-> <<set_log>>])]
    /\ UNCHANGED <<uploads, personal_records, completions>>

\* `not x` of a field value: None, Decimal 0 and 0 are false.
Not(x) == x = PyNone \/ x.v = 0

\* PersonalRecord.objects.filter(user, exercise, record_type='max_weight',
\* is_current=True)
CurrentRecords(prs, user, exercise) ==
    {p \in prs : /\ p.user = user /\ p.exercise = exercise
                 /\ p.record_type = "max_weight" /\ p.is_current}

\* .first() under Meta.ordering = ['-achieved_at']: a newest row.
FirstRecord(rows) == CHOOSE p \in rows : \A o \in rows : o.achieved_at.v <= p.achieved_at.v

\* Variant: a set that equals the current record is a record too.
Beats_OrEqual(set_log, existing_pr) == set_log.weight.v >= existing_pr.weight_kg.v

\* set_log.weight > existing_pr.weight_kg
Beats(set_log, existing_pr) == set_log.weight.v > existing_pr.weight_kg.v

\* PersonalRecord.objects.create(...)
NewRecord(prs, workout, exercise, set_log, key) ==
    [id |-> Cardinality(prs) + 1, user |-> workout.user, exercise |-> exercise,
     record_type |-> "max_weight", weight_kg |-> set_log.weight, reps |-> set_log.reps,
     achieved_at |-> workout.started_at, workout_log |-> workout.id, set_log |-> key,
     is_current |-> TRUE]

\* The body of the loop over the completed sets of an activity log.
CheckSet(prs, workout, exercise, set_log, key) ==
    IF Not(set_log.weight) \/ Not(set_log.reps)
    THEN prs
    ELSE IF CurrentRecords(prs, workout.user, exercise) = {}
    THEN prs \cup {NewRecord(prs, workout, exercise, set_log, key)}
    ELSE IF Beats(set_log, FirstRecord(CurrentRecords(prs, workout.user, exercise)))
    THEN (prs \ {FirstRecord(CurrentRecords(prs, workout.user, exercise))})
           \cup {[FirstRecord(CurrentRecords(prs, workout.user, exercise))
                     EXCEPT !.is_current = FALSE],
                 NewRecord(prs, workout, exercise, set_log, key)}
    ELSE prs

\* for set_log in activity_log.set_logs.filter(is_completed=True), from
\* set j on.
RECURSIVE CheckSets(_, _, _, _)
CheckSets(prs, workout, i, j) ==
    IF j > Len(workout.activity_logs[i].set_logs)
    THEN prs
    ELSE CheckSets(IF workout.activity_logs[i].set_logs[j].is_completed
                   THEN CheckSet(prs, workout, workout.activity_logs[i].exercise,
                                 workout.activity_logs[i].set_logs[j], <<workout.id, i, j>>)
                   ELSE prs,
                   workout, i, j + 1)

\* _check_personal_records: the loop over the activity logs, from log i on;
\* a log without an exercise is passed over.
RECURSIVE CheckLogs(_, _, _)
CheckLogs(prs, workout, i) ==
    IF i > Len(workout.activity_logs)
    THEN prs
    ELSE CheckLogs(IF workout.activity_logs[i].exercise = PyNone
                   THEN prs
                   ELSE CheckSets(prs, workout, i, 1),
                   workout, i + 1)
_check_personal_records(prs, workout) == CheckLogs(prs, workout, 1)

\* WorkoutLogViewSet.complete by the workout's owner.  ended_at is the
\* request's value, a string, or now() when the request has none; the
\* duration is ended_at - started_at, which raises TypeError on a string,
\* before anything is saved.
Complete(w, ended_at) ==
    /\ TotalCompletions < MaxCompletions
    /\ completions' = [completions EXCEPT ![w] =
                          [n |-> @.n + 1, sets |-> SetCount(logbook[w]),
                           raised |-> ended_at.t # "datetime"]]
    /\ IF ended_at.t # "datetime"
       THEN UNCHANGED <<logbook, personal_records>>
       ELSE /\ logbook' = [logbook EXCEPT
                              ![w].ended_at = ended_at,
                              ![w].total_elapsed_time =
                                  Decimal((ended_at.v - logbook[w].started_at.v) * Unit)]
            /\ personal_records' = _check_personal_records(personal_records, logbook[w])
    /\ UNCHANGED uploads

\* Two strength workouts without sets, the first of alice, the second of
\* either user; no PersonalRecord.
InitRecords ==
    /\ folder = UploadFolder
    /\ NoCalls
    /\ probe = NoProbe
    /\ \E owner \in Users :
          logbook = [w \in Workouts |->
                        ManualWorkout(IF w = 1 THEN "alice" ELSE owner, w)]
    /\ personal_records = {}
    /\ completions = [w \in Workouts |-> [n |-> 0, sets |-> 0, raised |-> FALSE]]

NextRecords ==
    \/ \E w \in Workouts, logged \in LoggedSets : LogSet(w, logged[1], logged[2])
    \/ \E w \in Workouts, ended_at \in {Datetime(50), Str} : Complete(w, ended_at)

SpecRecords == InitRecords /\ [][NextRecords]_vars

(* ------------------- the coercion utilities, directly ----------------- *)
\* Arguments of the direct calls.  3.14159, 2.05, 0.125 and 0.375 are
\* floats; the last two are exact in binary and lie on a rounding tie at
\* precision 2.
Numbers       == {0, 1, 0 - 1, 314159, 0 - 314159, 205000, 12500, 37500, 0 - 12500,
                  4200000, 99999, 250000}
CoerceValues  == {PyNone, Str, NaN, Inf, NegInf, Datetime(10), List_, Int_(0), Int_(3),
                  Int_(0 - 7)}
                     \cup {Float(u) : u \in Numbers} \cup {NumStr(u) : u \in Numbers}
Semicircles   == {PyNone, Str, NaN, Inf, NegInf, Datetime(10), List_, NumStr(4200000),
                  Int_(0), Int_(1), Int_(0 - 1), Int_(2 ^ 30), Int_(0 - 2 ^ 30),
                  Int_(2 ^ 29), Int_(3 * 2 ^ 28), Int_(2 ^ 30 + 2 ^ 30 - 1),
                  Int_(0 - 2 ^ 30 - 2 ^ 30), Int_(123456789), Int_(2 ^ 20)}
Precisions    == {1, 2, 3}

InitCoerce ==
    /\ folder = SharedFolder
    /\ NoCalls
    /\ NoStrength
    /\ \E value \in CoerceValues \cup Semicircles, precision \in Precisions :
          probe = [NoProbe EXCEPT !.value = value, !.precision = precision]

\* self._safe_decimal(value, precision)
Call_safe_decimal ==
    /\ probe.fn = "" /\ probe.value \in CoerceValues
    /\ probe' = [probe EXCEPT !.fn = "_safe_decimal",
                              !.exc = Raised_safe_decimal(probe.value, probe.precision),
                              !.result = _safe_decimal(probe.value, probe.precision)]
    /\ UNCHANGED pipeline

\* self._safe_int(value)
Call_safe_int ==
    /\ probe.fn = "" /\ probe.value \in CoerceValues
    /\ probe' = [probe EXCEPT !.fn = "_safe_int",
                              !.exc = Raised_safe_int(probe.value),
                              !.result = IF Raised_safe_int(probe.value) = NoExc
                                         THEN _safe_int(probe.value) ELSE PyNone]
    /\ UNCHANGED pipeline

\* self._convert_semicircles_to_degrees(semicircles)
Call_convert_semicircles_to_degrees ==
    /\ probe.fn = "" /\ probe.value \in Semicircles
    /\ probe' = [probe EXCEPT
                    !.fn = "_convert_semicircles_to_degrees",
                    !.exc = Raised_convert_semicircles_to_degrees(probe.value),
                    !.result = IF Raised_convert_semicircles_to_degrees(probe.value) = NoExc
                               THEN _convert_semicircles_to_degrees(probe.value)
                               ELSE PyNone]
    /\ UNCHANGED pipeline

NextCoerce ==
    \/ Call_safe_decimal
    \/ Call_safe_int
    \/ Call_convert_semicircles_to_degrees

SpecCoerce == InitCoerce /\ [][NextCoerce]_vars

(* ------------- a lap and a session with the same field values ---------- *)
\* Readings of an altitude or speed under its enhanced and its legacy name:
\* not carried by the message, carried as None, 0, 2.0 or 2.05.
Readings == {Absent, PyNone, Float(0), Float(200000), Float(205000)}

InitFields ==
    /\ folder = SharedFolder
    /\ NoCalls
    /\ NoStrength
    /\ \E p \in DecimalPairs, x \in Readings, y \in Readings :
          probe = [NoProbe EXCEPT
                      !.value = [t |-> "fields", v |-> 0, keys |-> p,
                                 fields |-> Opt(p[1], x) @@ Opt(p[2], y)]]

\* The LapLog row _create_lap_log builds from a lap message with the fields.
Call_create_lap_log ==
    /\ probe.fn = ""
    /\ probe' = [probe EXCEPT !.fn = "_create_lap_log",
                              !.result = NewLap(1, probe.value.fields @@ LapOk.fields, 1)]
    /\ UNCHANGED pipeline

\* The WorkoutLog row _create_workout_log builds from a session message with
\* the fields.
Call_create_workout_log ==
    /\ probe.fn = ""
    /\ probe' = [probe EXCEPT
                    !.fn = "_create_workout_log",
                    !.result = NewWorkout("alice", 1,
                                   parse_fit_file(<<FileId,
                                       Message("session",
                                               probe.value.fields @@ SessionOk.fields)>>),
                                   TRUE)]
    /\ UNCHANGED pipeline

NextFields ==
    \/ Call_create_lap_log
    \/ Call_create_workout_log

SpecFields == InitFields /\ [][NextFields]_vars

(* -------------------- the semantic mappings, directly ------------------ *)
\* Decoded values of the sport, sub_sport, lap_trigger and intensity fields:
\* every key of the four tables, every enumeration value and an unknown
\* word, in three letter cases; values that are not strings; and Absent
\* for a message without the field.
MapWords  == DOMAIN SPORT_MAP \cup DOMAIN SUB_SPORT_MAP \cup DOMAIN trigger_map
                 \cup DOMAIN intensity_map \cup SportType \cup SubSportType
                 \cup LapTrigger \cup IntensityLevel \cup {"e_biking", "none"}
Cases     == {"lower", "upper", "title"}
MapValues == {Text(w, k) : w \in MapWords, k \in Cases}
                 \cup {PyNone, Absent, Int_(3), Datetime(10), List_}

InitMap ==
    /\ folder = SharedFolder
    /\ NoCalls
    /\ NoStrength
    /\ \E value \in MapValues : probe = [NoProbe EXCEPT !.value = value]

\* self._map_sport(session.get('sport'))
Call_map_sport ==
    /\ probe.fn = ""
    /\ probe' = [probe EXCEPT !.fn = "_map_sport",
                              !.result = _map_sport(get(Opt("sport", probe.value), "sport"))]
    /\ UNCHANGED pipeline

\* self._map_sub_sport(session.get('sub_sport'))
Call_map_sub_sport ==
    /\ probe.fn = ""
    /\ probe' = [probe EXCEPT
                    !.fn = "_map_sub_sport",
                    !.result = _map_sub_sport(get(Opt("sub_sport", probe.value),
                                                  "sub_sport"))]
    /\ UNCHANGED pipeline

\* The lap trigger _create_lap_log computes for a lap message.
Call_trigger ==
    /\ probe.fn = ""
    /\ probe' = [probe EXCEPT !.fn = "trigger",
                              !.result = trigger(Opt("lap_trigger", probe.value))]
    /\ UNCHANGED pipeline

\* The intensity _create_lap_log computes for a lap message.
Call_intensity ==
    /\ probe.fn = ""
    /\ probe' = [probe EXCEPT !.fn = "intensity",
                              !.result = intensity(Opt("intensity", probe.value))]
    /\ UNCHANGED pipeline

NextMap ==
    \/ Call_map_sport
    \/ Call_map_sub_sport
    \/ Call_trigger
    \/ Call_intensity

SpecMap == InitMap /\ [][NextMap]_vars

TypeOK ==
    /\ \A c \in Calls : pc[c] \in {"idle", "exit", "done"}
    /\ \A c \in Calls : Cardinality(tx[c].imports) <= 1

(* ------------------------------ properties ---------------------------- *)
Finished(c) == pc[c] = "done"
Returned(c) == Finished(c) /\ ret[c].kind = "returned"
Raised(c)   == Finished(c) /\ ret[c].kind = "raised"

\* The call returned through the duplicate short-circuit.
ShortCircuited(c) ==
    \E i \in 1..Len(warnings[c]) : warnings[c][i][1] = "Duplicate file detected"

\* The decoded data of the call's file.
Data(c) == parse_fit_file(folder[args[c].file_path])

\* Two calls by the same user on the same file bytes.
SameUpload(c1, c2) ==
    /\ pc[c1] # "idle" /\ pc[c2] # "idle"
    /\ args[c1].user = args[c2].user
    /\ calculate_file_hash(args[c1].file_path) = calculate_file_hash(args[c2].file_path)

\* Statements of the try block, all of them after the import record exists.
TrySteps == {"workout", "laps", "records", "devices", "update"}

\* Rows of the record graph that call c created, in the given tables.
GraphRows(tables, c) ==
    [workouts |-> {w \in tables.workouts : w.id = c},
     laps     |-> {l \in tables.laps : l.workout_log = c},
     records  |-> {r \in tables.records : r.workout_log = c},
     devices  |-> {d \in tables.devices : d.workout_log = c}]
NoGraphRows == [workouts |-> {}, laps |-> {}, records |-> {}, devices |-> {}]

ImportsOf(c)  == {r \in db.imports : /\ r.user = args[c].user
                                     /\ r.file_hash = calculate_file_hash(args[c].file_path)}
WorkoutsOf(c) == {w \in db.workouts : \E r \in ImportsOf(c) : r.workout_log = Int_(w.id)}

\* c2 was called after c1 had returned, same user, same bytes, duplicate
\* check on, and no other call was made for that user and hash.
SequentialPair(c1, c2) ==
    /\ c1 \in prior[c2] /\ ret[c1].kind = "returned"
    /\ Finished(c2) /\ args[c2].check_duplicates
    /\ SameUpload(c1, c2)
    /\ \A o \in Calls \ {c1, c2} : ~SameUpload(o, c1)

\* C1: of two sequential imports of the same bytes by the same user with
\* duplicate checking, the second returns the pair the first returned, adds
\* the duplicate warning and creates no row; one import record and one
\* workout exist for that user and hash.
C1_IdempotentDuplicate ==
    \A c1, c2 \in Calls :
        SequentialPair(c1, c2) =>
            /\ ret[c2].kind = "returned"
            /\ ret[c2].workout_log = ret[c1].workout_log
            /\ ret[c2].fit_import = ret[c1].fit_import
            /\ ShortCircuited(c2)
            /\ Cardinality(ImportsOf(c2)) = 1
            /\ Cardinality(WorkoutsOf(c2)) = 1
            /\ GraphRows(db, c2) = NoGraphRows
            /\ \A r \in db.imports : r.id # c2

\* The same bytes imported a second time under another file name.
C1_Witness ==
    \E c1, c2 \in Calls :
        /\ SequentialPair(c1, c2)
        /\ args[c1].file_path # args[c2].file_path
        /\ ShortCircuited(c2)
        /\ db.records # {}

\* C2: when a statement of the try block raised, no Workout, Lap,
\* RecordPoint or DeviceInfo row of the attempt is in the database once
\* control is back with the caller.
C2_Atomicity ==
    \A c \in Calls :
        (Raised(c) /\ ret[c].exc.at \in TrySteps) => GraphRows(db, c) = NoGraphRows

\* A call whose second device row was refused after the workout and the
\* first device row were written has raised to its caller.
C2_Witness ==
    \E c \in Calls :
        /\ Raised(c) /\ ret[c].exc.at = "devices"
        /\ Len(saved[c]) >= 1
        /\ Len(Data(c).devices) >= 2

\* C3: when a statement of the try block raised, the import record of the
\* attempt is in the database with status 'failed' and an error message.
C3_FailedImportAudited ==
    \A c \in Calls :
        (Raised(c) /\ ret[c].exc.at \in TrySteps) =>
            \E r \in db.imports :
                r.id = c /\ r.status = "failed" /\ r.error_message # ""

\* C4: a file without session message makes parse_and_import raise
\* ValueError and leaves no row of the attempt.
C4_MissingSessionFatal ==
    \A c \in Calls :
        (Finished(c) /\ Data(c).session = <<>>) =>
            /\ ret[c].kind = "raised"
            /\ ret[c].exc.type = "ValueError"
            /\ GraphRows(db, c) = NoGraphRows
            /\ \A r \in db.imports : r.id # c

\* A file with laps, records or devices but no session was refused.
C4_Witness ==
    \E c \in Calls :
        /\ Raised(c) /\ Data(c).session = <<>>
        /\ Data(c).file_id # <<>>

\* C5: when a call that did not short-circuit returns, the import record it
\* returns is committed as 'completed' with a processed time and linked to
\* the returned workout, and both rows were written by this call.
C5_SuccessOutcome ==
    [][\A c \in Calls :
          (/\ pc[c] = "exit" /\ pc'[c] = "done"
           /\ ret'[c].kind = "returned" /\ ~ShortCircuited(c)) =>
              /\ \E r \in db'.imports :
                    /\ Int_(r.id) = ret'[c].fit_import
                    /\ r \in tx[c].imports /\ r \notin db.imports
                    /\ r.status = "completed"
                    /\ r.processed_at # PyNone
                    /\ r.workout_log = ret'[c].workout_log
              /\ \E w \in db'.workouts :
                    /\ Int_(w.id) = ret'[c].workout_log
                    /\ w \in tx[c].workouts /\ w \notin db.workouts]_vars

\* A non-duplicate import has returned its pair.
C5_Witness ==
    \E c \in Calls :
        /\ Returned(c) /\ ~ShortCircuited(c)
        /\ \E r \in db.imports : Int_(r.id) = ret[c].fit_import /\ r.status = "completed"

\* C6: the first version a call writes of its import record is 'processing';
\* the one later version, if any, is 'completed' with a workout link or
\* 'failed' with an error message; 'pending' and 'duplicate' are never
\* written, rows of other attempts are not written, and the status of a
\* committed 'completed' or 'failed' row never changes.
C6_ImportLifecycle ==
    [][/\ \A c \in Calls :
            LET s == saved'[c]
            IN  /\ Len(s) <= 2
                /\ \A i \in 1..Len(s) :
                      s[i].id = c /\ s[i].status \notin {"pending", "duplicate"}
                /\ Len(s) >= 1 => s[1].status = "processing"
                /\ Len(s) = 2 =>
                      \/ s[2].status = "completed" /\ s[2].workout_log # PyNone
                      \/ s[2].status = "failed" /\ s[2].error_message # ""
       /\ \A o \in db.imports :
            o.status \in {"completed", "failed"} =>
                \A r \in db'.imports : r.id = o.id => r.status = o.status]_vars

\* The except branch has written 'failed' on the record the call created as
\* 'processing'.
C6_Witness ==
    \E c \in Calls :
        /\ pc[c] = "exit" /\ Len(saved[c]) = 2
        /\ saved[c][1].status = "processing"
        /\ saved[c][2].status = "failed" /\ saved[c][2].error_message # ""
        /\ saved[c][2] \in tx[c].imports

\* C7: two calls for the same user and bytes, both with duplicate checking,
\* that both got past the lookup end with two completed import records and
\* two workouts for that user and hash.
C7_ConcurrentDuplicateRace ==
    \A c1, c2 \in Calls :
        (/\ c1 # c2 /\ SameUpload(c1, c2)
         /\ args[c1].check_duplicates /\ args[c2].check_duplicates
         /\ Returned(c1) /\ ~ShortCircuited(c1)
         /\ Returned(c2) /\ ~ShortCircuited(c2)) =>
            /\ Cardinality({r \in ImportsOf(c1) : r.status = "completed"}) >= 2
            /\ Cardinality(WorkoutsOf(c1)) >= 2

\* Both calls ran at the same time and both imported.
C7_Witness ==
    \E c1, c2 \in Calls :
        /\ c1 # c2 /\ SameUpload(c1, c2)
        /\ args[c1].check_duplicates /\ args[c2].check_duplicates
        /\ c1 \notin prior[c2] /\ c2 \notin prior[c1]
        /\ Returned(c1) /\ ~ShortCircuited(c1)
        /\ Returned(c2) /\ ~ShortCircuited(c2)
        /\ Cardinality({r \in ImportsOf(c1) : r.status = "completed"}) = 2
        /\ Cardinality(WorkoutsOf(c1)) = 2

\* C8: no step of parse_and_import removes or changes a committed row.
C8_ExistingDataKept ==
    [][/\ db.imports \subseteq db'.imports
       /\ db.workouts \subseteq db'.workouts
       /\ db.laps \subseteq db'.laps
       /\ db.records \subseteq db'.records
       /\ db.devices \subseteq db'.devices]_vars

\* A duplicate upload has returned while the first import's rows are there.
C8_Witness ==
    \E c1, c2 \in Calls :
        /\ c1 \in prior[c2] /\ Returned(c2) /\ ShortCircuited(c2)
        /\ GraphRows(db, c1).workouts # {}
        /\ GraphRows(db, c1).records # {}

\* C9: the laps of an imported workout are numbered 1..N in the order of
\* the lap messages, whatever index the messages carry.
C9_LapNumbering ==
    \A c \in Calls :
        GraphRows(db, c).workouts # {} =>
            LET laps == Data(c).laps
                rows == GraphRows(db, c).laps
            IN  /\ Cardinality(rows) = Len(laps)
                /\ \A i \in 1..Len(laps) :
                      \E l \in rows : /\ l.lap_number = i
                                      /\ l.start_time = get(laps[i], "start_time")
                                      /\ l.end_time = get(laps[i], "timestamp")
                /\ \A a, b \in rows : a.lap_number = b.lap_number => a = b

\* An import whose lap messages carry the indexes 5 and 0, in that order.
C9_Witness ==
    \E c \in Calls :
        /\ GraphRows(db, c).workouts # {}
        /\ Len(Data(c).laps) >= 2
        /\ get(Data(c).laps[1], "message_index") = Int_(5)
        /\ get(Data(c).laps[2], "message_index") = Int_(0)

\* C10: elapsed_seconds of every stored record point is its timestamp minus
\* the timestamp of the file's first record message.
C10_ElapsedDerivation ==
    \A c \in Calls : \A r \in GraphRows(db, c).records :
        r.elapsed_seconds = r.timestamp.v - get(Data(c).records[1], "timestamp").v

\* Samples at 10, 11 and 15 were stored with 0, 1 and 5, one of the
\* messages carrying an elapsed_time field.
C10_Witness ==
    \E c \in Calls :
        /\ {r.elapsed_seconds : r \in GraphRows(db, c).records} = {0, 1, 5}
        /\ \E i \in 1..Len(Data(c).records) : "elapsed_time" \in DOMAIN Data(c).records[i]

\* The session aggregates of the Workout: the field, the session keys it is
\* read from in order of preference, and the digits kept (0: an integer).
Aggregates ==
    {[field |-> "total_distance", keys |-> <<"total_distance">>, precision |-> 2],
     [field |-> "total_ascent", keys |-> <<"total_ascent">>, precision |-> 0],
     [field |-> "avg_heart_rate", keys |-> <<"avg_heart_rate">>, precision |-> 0],
     [field |-> "min_altitude", keys |-> <<"enhanced_min_altitude", "min_altitude">>,
      precision |-> 2],
     [field |-> "max_altitude", keys |-> <<"enhanced_max_altitude", "max_altitude">>,
      precision |-> 2],
     [field |-> "avg_speed", keys |-> <<"enhanced_avg_speed", "avg_speed">>, precision |-> 3],
     [field |-> "max_speed", keys |-> <<"enhanced_max_speed", "max_speed">>, precision |-> 3],
     [field |-> "avg_cadence", keys |-> <<"avg_cadence", "avg_running_cadence">>,
      precision |-> 0],
     [field |-> "max_cadence", keys |-> <<"max_cadence", "max_running_cadence">>,
      precision |-> 0]}

\* The stored form of a reported number.
Stored(a, x) == IF a.precision = 0 THEN Int_(x.v) ELSE Decimal(x.v)

\* The session message the call's Workout was built from.
SessionOf(c) == Data(c).session[1]

\* C11: of a session aggregate reported under both names, the Workout stores
\* the value of the preferred (enhanced) name, a zero included.
C11_EnhancedPreferred ==
    \A c \in Calls : \A w \in GraphRows(db, c).workouts : \A a \in Aggregates :
        (/\ Len(a.keys) = 2
         /\ get(SessionOf(c), a.keys[1]) # PyNone
         /\ get(SessionOf(c), a.keys[2]) # PyNone) =>
            w[a.field] = Stored(a, get(SessionOf(c), a.keys[1]))

\* C12: a session aggregate is stored as absent exactly when the session
\* reports it under none of its names, and reported zeros are stored as zero.
C12_AbsentIsNotZero ==
    \A c \in Calls : \A w \in GraphRows(db, c).workouts : \A a \in Aggregates :
        LET reported == {i \in DOMAIN a.keys : get(SessionOf(c), a.keys[i]) # PyNone}
        IN  /\ w[a.field] = PyNone <=> reported = {}
            /\ (/\ reported # {}
                 /\ \A i \in reported : get(SessionOf(c), a.keys[i]).v = 0) =>
                    w[a.field].v = 0 /\ w[a.field] # PyNone

\* The record message carries both coordinates.
HasPosition(r) ==
    /\ "position_lat" \in DOMAIN r /\ r.position_lat.t = "int"
    /\ "position_long" \in DOMAIN r /\ r.position_long.t = "int"

\* The point a polyline reaches after its first n steps.
RECURSIVE PointAt(_, _)
PointAt(deltas, n) ==
    IF n = 0
    THEN <<0, 0>>
    ELSE <<PointAt(deltas, n - 1)[1] + deltas[n][1], PointAt(deltas, n - 1)[2] + deltas[n][2]>>

\* C13: the route of an imported Workout runs through the positions of the
\* record messages that carry both coordinates, in file order, and is absent
\* when there is none (or when the encoder raised); the route step fails no
\* import.
C13_RouteWithGaps ==
    \A c \in Calls :
        /\ \A w \in GraphRows(db, c).workouts :
              LET sel == SelectSeq(Data(c).records, HasPosition)
              IN  IF sel = <<>> \/ encode_raised[c]
                  THEN w.map_polyline = PyNone
                  ELSE /\ w.map_polyline.t = "polyline"
                       /\ Len(w.map_polyline.deltas) = Len(sel)
                       /\ \A i \in 1..Len(sel) :
                             PointAt(w.map_polyline.deltas, i) =
                                <<E5(SemicirclesToDegrees(sel[i].position_lat.v)),
                                  E5(SemicirclesToDegrees(sel[i].position_long.v))>>
        /\ (Finished(c) /\ folder[args[c].file_path] \in RouteFiles) =>
              \/ ret[c].kind = "returned"
              \/ ret[c].exc.at = "update"

\* The ride of five records, two of them without a position, was imported
\* with a route of three points: (45, 90), (0, 0) and (1.03480, -90).
C13_Witness ==
    \E c \in Calls : \E w \in GraphRows(db, c).workouts :
        /\ folder[args[c].file_path] = Ride
        /\ Len(Data(c).records) = 5
        /\ w.map_polyline = Polyline(<<<<4500000, 9000000>>,
                                        <<0 - 4500000, 0 - 9000000>>,
                                        <<103480, 0 - 9000000>>>>)

\* The key of a device-info message: its decoded index, 'unknown' without.
DeviceKey(d) ==
    IF get(d, "device_index") = PyNone THEN "unknown" ELSE str(d.device_index)

\* C14: an import that got as far as the device-info messages stores one
\* DeviceInfo row per message, the n-th keyed by the n-th message's index.
C14_DeviceRowPerMessage ==
    \A c \in Calls :
        (/\ Finished(c) /\ ~ShortCircuited(c)
         /\ ret[c].kind = "returned" \/ ret[c].exc.at = "devices") =>
            LET devices == Data(c).devices
                rows    == GraphRows(db, c).devices
            IN  /\ Cardinality(rows) = Len(devices)
                /\ \A n \in 1..Len(devices) :
                      \E r \in rows : r.id = <<c, n>> /\ r.device_index = DeviceKey(devices[n])

\* C15: a file with a session message and no other message is imported, and
\* its import record has the default file identity.
C15_OnlySessionMandatory ==
    \A c \in Calls :
        (/\ Finished(c) /\ ~ShortCircuited(c)
         /\ folder[args[c].file_path] = <<SessionOk>>
         /\ ret[c].exc.at # "update") =>
            /\ ret[c].kind = "returned"
            /\ \E r \in db.imports :
                  /\ r.id = c /\ r.fit_serial_number = ""
                  /\ r.fit_manufacturer = "" /\ r.fit_type = "activity"

\* Reasons for an import to raise other than a field a message lacks: no
\* session or file_id message, a storage failure, an infinite number, a
\* record too far from the first one, a repeated device index.
OtherCause(c) ==
    \/ ret[c].exc.at \in {"parse", "create", "update"}
    \/ get(SessionOf(c), "total_ascent") = Inf
    \/ \E i \in DOMAIN Data(c).records :
            get(Data(c).records[i], "timestamp") = Datetime(FarFuture)
    \/ \E i, j \in DOMAIN Data(c).devices :
            i # j /\ str_get(Data(c).devices[i], "device_index", "unknown")
                        = str_get(Data(c).devices[j], "device_index", "unknown")

\* C16: no import raises because a session, lap, record or device-info
\* message lacks a field.
C16_MissingFieldsNeverFail ==
    \A c \in Calls : Raised(c) => OtherCause(c)

\* C17: a Workout with both times ends no earlier than it starts.
C17_WorkoutTimeOrdering ==
    \A w \in db.workouts :
        (w.started_at # PyNone /\ w.ended_at # PyNone) => w.ended_at.v >= w.started_at.v

\* C18: no direct call of _safe_decimal, _safe_int or
\* _convert_semicircles_to_degrees raises, whatever the argument.
C18_CoercionNeverRaises ==
    probe.fn # "" => probe.exc = NoExc

\* A float of u units rounded to `precision` digits: a multiple of
\* 10^-precision at most half a step away.
IsRounded(d, u, precision) ==
    LET q == 10 ^ (5 - precision)
    IN  /\ d.t = "decimal" /\ d.v % q = 0
        /\ 2 * (d.v - u) <= q /\ 2 * (u - d.v) <= q

\* C19: _safe_decimal gives absent for None, a non-numeric string and NaN,
\* the value rounded to `precision` digits for a number or numeric string,
\* and never a NaN decimal.
C19_SafeDecimalResult ==
    probe.fn = "_safe_decimal" =>
        /\ probe.value.t \in {"none", "str", "nan"} => probe.result = PyNone
        /\ probe.value.t \in {"int", "float", "numstr"} =>
              IsRounded(probe.result, ToFloat(probe.value), probe.precision)
        /\ probe.result # DecimalNaN

\* d denotes raw * 180 / 2^31 = raw * 45 / 2^29 degrees, compared digit by
\* digit in base 2^15.
DenotesDegrees(d, raw) ==
    LET base == 2 ^ 15
        a    == raw \div base
        b    == raw % base
    IN  /\ d.t = "degrees" /\ d.frac >= 0 /\ d.frac < DegreesDen
        /\ d.frac % base = (DegreesNum * b) % base
        /\ d.v * (DegreesDen \div base) + (d.frac \div base)
              = DegreesNum * a + ((DegreesNum * b) \div base)

\* C20: _convert_semicircles_to_degrees(raw) is raw * 180 / 2^31 for every
\* integer raw (0 gives 0.0), and is absent exactly when raw is absent.
C20_AngularConversion ==
    (probe.fn = "_convert_semicircles_to_degrees" /\ probe.exc = NoExc) =>
        /\ probe.value.t = "int" => DenotesDegrees(probe.result, probe.value.v)
        /\ probe.value = Int_(0) => probe.result = Degrees(0, 0)
        /\ probe.result = PyNone <=> probe.value = PyNone

\* The quarter turn 2^30 was converted to 90.0 degrees.
C20_Witness ==
    /\ probe.fn = "_convert_semicircles_to_degrees"
    /\ probe.value = Int_(2 ^ 30)
    /\ probe.result = Degrees(90, 0)

\* C21: every decoded sport, sub-sport, lap-trigger and intensity value
\* (absent, recognized in any letter case, or unrecognized) is mapped to a
\* member of the corresponding enumeration; inputs differing only in case
\* map to the same member; a recognized word maps to its table entry, and
\* absent or unrecognized input maps to the table's fallback.
MapTable(fn) ==
    CASE fn = "_map_sport" -> [table |-> SPORT_MAP, enum |-> SportType, fallback |-> "other"]
      [] fn = "_map_sub_sport" ->
            [table |-> SUB_SPORT_MAP, enum |-> SubSportType, fallback |-> "generic"]
      [] fn = "trigger" -> [table |-> trigger_map, enum |-> LapTrigger, fallback |-> "manual"]
      [] fn = "intensity" ->
            [table |-> intensity_map, enum |-> IntensityLevel, fallback |-> "active"]

Mapped(fn, value) ==
    CASE fn = "_map_sport" -> _map_sport(get(Opt("sport", value), "sport"))
      [] fn = "_map_sub_sport" -> _map_sub_sport(get(Opt("sub_sport", value), "sub_sport"))
      [] fn = "trigger" -> trigger(Opt("lap_trigger", value))
      [] fn = "intensity" -> intensity(Opt("intensity", value))

Recognized(fn, value) == value.t = "text" /\ value.word \in DOMAIN MapTable(fn).table

C21_MappingTotalCaseInsensitive ==
    probe.fn \in {"_map_sport", "_map_sub_sport", "trigger", "intensity"} =>
        /\ probe.result \in MapTable(probe.fn).enum
        /\ \A other \in MapValues :
               other.t = "text" /\ probe.value.t = "text" /\ other.word = probe.value.word
                   => Mapped(probe.fn, other) = probe.result
        /\ Recognized(probe.fn, probe.value)
               => probe.result = MapTable(probe.fn).table[probe.value.word]
        /\ ~Recognized(probe.fn, probe.value)
               => probe.result = MapTable(probe.fn).fallback

C21_Witness ==
    /\ probe.fn = "_map_sport"
    /\ probe.value = Text("fitness_equipment", "upper")
    /\ probe.result = "strength"

\* C24: a successful import stores one record point for each record message
\* that has a timestamp, in file order, when the first record message has a
\* timestamp, and none when it lacks one or the file has no record message;
\* the record step does not fail in any of these cases (it fails only on an
\* elapsed time too long for the column).
HasTime(r) == get(r, "timestamp") # PyNone

C24_RecordSkipping ==
    \A c \in Calls :
        Finished(c) /\ ~ShortCircuited(c) =>
            LET recs    == Data(c).records
                stamped == SelectSeq(recs, HasTime)
                rows    == GraphRows(db, c).records
            IN  /\ Returned(c) =>
                      IF recs # <<>> /\ HasTime(recs[1])
                      THEN /\ Cardinality(rows) = Len(stamped)
                           /\ \A n \in 1..Len(stamped) :
                                  \E r \in rows : /\ r.id = <<c, n>>
                                                  /\ r.timestamp = stamped[n].timestamp
                      ELSE rows = {}
                /\ Raised(c) /\ ret[c].exc.at = "records" =>
                      /\ recs # <<>> /\ HasTime(recs[1])
                      /\ \E i \in DOMAIN recs : get(recs[i], "timestamp") = Datetime(FarFuture)

\* Three record messages, the second without a timestamp: two points.
C24_Witness ==
    \E c \in Calls :
        /\ Returned(c) /\ ~ShortCircuited(c)
        /\ Len(Data(c).records) = 3
        /\ HasTime(Data(c).records[1]) /\ ~HasTime(Data(c).records[2])
        /\ HasTime(Data(c).records[3])
        /\ Cardinality(GraphRows(db, c).records) = 2

\* The column an enhanced/legacy pair of message fields is stored in.
ColumnOf(keys) ==
    CASE keys[2] = "min_altitude" -> "min_altitude"
      [] keys[2] = "max_altitude" -> "max_altitude"
      [] keys[2] = "avg_speed" -> "avg_speed"
      [] keys[2] = "max_speed" -> "max_speed"

\* C25: for every combination of present and absent enhanced and legacy
\* values of min/max altitude and avg/max speed, a Lap built from a lap
\* message stores the value that a Workout built from a session message with
\* the same field values stores.
C25_LapFollowsWorkoutRule ==
    probe.fn = "_create_lap_log" =>
        probe.result[ColumnOf(probe.value.keys)]
            = NewWorkout("alice", 1,
                  parse_fit_file(<<FileId,
                      Message("session", probe.value.fields @@ SessionOk.fields)>>),
                  TRUE)[ColumnOf(probe.value.keys)]

\* The fields of the last session message of the call's file, in file order.
LastSession(c) ==
    LET msgs == folder[args[c].file_path]
        at   == CHOOSE i \in DOMAIN msgs :
                    /\ msgs[i].name = "session"
                    /\ \A j \in DOMAIN msgs : msgs[j].name = "session" => j <= i
    IN  msgs[at].fields

\* C27: a successful import that is not a duplicate hit leaves exactly one
\* Workout and one import record of the call, both owned by the service's
\* user; the Workout is built from the last session message of the file,
\* whatever their number; every Lap, RecordPoint and DeviceInfo row of the
\* call references that Workout.
C27_OneImportOneGraph ==
    \A c \in Calls :
        Returned(c) /\ ~ShortCircuited(c) =>
            /\ \E w \in db.workouts :
                  /\ {x \in db.workouts : x.id = c} = {w}
                  /\ w.user = args[c].user
                  /\ w.started_at = Or(get(LastSession(c), "start_time"),
                                       get(LastSession(c), "timestamp"))
                  /\ w.ended_at = get(LastSession(c), "timestamp")
                  /\ w.total_ascent = _safe_int(get(LastSession(c), "total_ascent"))
            /\ \E r \in db.imports :
                  /\ {x \in db.imports : x.id = c} = {r}
                  /\ r.user = args[c].user
                  /\ r.workout_log = Int_(c)
            /\ \A r \in db.laps \cup db.records \cup db.devices :
                  r.id[1] = c => r.workout_log = c
            /\ Cardinality({r \in db.laps : r.workout_log = c}) = Len(Data(c).laps)

\* An imported file with two session messages that differ.
C27_Witness ==
    \E c \in Calls :
        /\ Returned(c) /\ ~ShortCircuited(c)
        /\ Len(FieldsOfKind(folder[args[c].file_path], "session")) = 2
        /\ FieldsOfKind(folder[args[c].file_path], "session")[1] # LastSession(c)
        /\ \E w \in db.workouts : w.id = c /\ w.started_at = Datetime(15)

\* Two device-info messages of the file carry the same device index, or
\* both lack it.
RepeatedIndex(devices) ==
    \E i, j \in DOMAIN devices :
        /\ i # j
        /\ str_get(devices[i], "device_index", "unknown")
               = str_get(devices[j], "device_index", "unknown")

\* C28: an import of a file with a repeated device index raises and leaves
\* no Workout, Lap, RecordPoint or DeviceInfo row of the attempt; the device
\* step raises for no other reason; and no two DeviceInfo rows of one
\* Workout ever share a device index, committed or not.
C28_RepeatedDeviceIndexAborts ==
    /\ \A c \in Calls :
          Finished(c) /\ ~ShortCircuited(c) =>
              /\ RepeatedIndex(Data(c).devices) =>
                    Raised(c) /\ GraphRows(db, c) = NoGraphRows
              /\ Raised(c) /\ ret[c].exc.at = "devices" =>
                    /\ RepeatedIndex(Data(c).devices)
                    /\ ret[c].exc.type \in {"IntegrityError", "TransactionManagementError"}
    /\ \A c \in Calls : \A a, b \in db.devices \cup tx[c].devices :
          a.workout_log = b.workout_log /\ a.device_index = b.device_index => a = b

\* An import that failed on the second of two device-info messages without
\* a device index.
C28_Witness ==
    \E c \in Calls :
        /\ Raised(c) /\ ret[c].exc.at = "devices"
        /\ Len(Data(c).devices) = 2
        /\ \A i \in 1..2 : "device_index" \notin DOMAIN Data(c).devices[i]
        /\ GraphRows(db, c) = NoGraphRows

\* The warnings of the call about the route encoding.
EncodeWarnings(c) ==
    {i \in 1..Len(warnings[c]) : warnings[c][i][1] = "Failed to encode map polyline"}

\* C26: when the polyline encoder raises on a non-empty coordinate
\* sequence, exactly one warning is appended to the service's warnings, the
\* Workout is created without a route, and the import completes with status
\* 'completed' unless it fails for another cause; no such warning appears
\* otherwise.
C26_EncodeFailureNonFatal ==
    \A c \in Calls :
        /\ Cardinality(EncodeWarnings(c)) = IF encode_raised[c] THEN 1 ELSE 0
        /\ encode_raised[c] /\ Finished(c) =>
              /\ Raised(c) => OtherCause(c)
              /\ Returned(c) =>
                    /\ \E w \in db.workouts : w.id = c /\ w.map_polyline = PyNone
                    /\ \E r \in db.imports :
                          r.id = c /\ r.status = "completed" /\ r.workout_log = Int_(c)

\* A completed import of a file with positions whose encoding failed.
C26_Witness ==
    \E c \in Calls :
        /\ encode_raised[c] /\ Returned(c)
        /\ Coordinates(Data(c).records) # <<>>
        /\ \E w \in db.workouts : w.id = c /\ w.map_polyline = PyNone
        /\ \E r \in db.imports : r.id = c /\ r.status = "completed"

(* -------------------- scope of the duplicate lookup ------------------- *)
\* The step in which call c runs the lookup and the body of the service.
CallStep(c) == pc[c] = "idle" /\ pc'[c] = "exit"

\* The committed ImportRecords of the caller with the digest of the uploaded
\* bytes and status 'completed', at the time of the call.
CompletedTwins(user, file_path) ==
    {r \in db.imports : /\ r.user = user
                        /\ r.file_hash = folder[file_path]
                        /\ r.status = "completed"}

\* C22: a call short-circuits exactly when check_duplicates is set and a
\* committed ImportRecord has the caller's user, the file's hash and status
\* 'completed' (so never on a record of another user, of another hash or of
\* another status); it then returns one of those records and writes no row.
\* A call that does not short-circuit and raises nothing, the call with
\* check_duplicates=False while such a record exists included, creates a
\* new ImportRecord and a new Workout.
C22_ShortCircuitScope ==
    [][\A c \in Calls : CallStep(c) =>
          /\ ShortCircuited(c)' <=>
                /\ args'[c].check_duplicates
                /\ CompletedTwins(args'[c].user, args'[c].file_path) # {}
          /\ ShortCircuited(c)' =>
                /\ ret'[c].kind = "returned"
                /\ \E r \in CompletedTwins(args'[c].user, args'[c].file_path) :
                      ret'[c].fit_import = Int_(r.id) /\ ret'[c].workout_log = r.workout_log
                /\ tx'[c] = EmptyTables
          /\ ~ShortCircuited(c)' /\ exc'[c] = NoExc =>
                /\ \E r \in tx'[c].imports : r.id = c /\ r.id \notin {o.id : o \in db.imports}
                /\ \E w \in tx'[c].workouts : w.id = c /\ w.id \notin {o.id : o \in db.workouts}
                /\ ret'[c].kind = "returned" /\ ret'[c].fit_import = Int_(c)
      ]_vars

\* A call with check_duplicates=False whose rows were committed beside a
\* completed record of the same user and bytes, and a call with
\* check_duplicates=True that imported beside a record of the same user and
\* bytes whose status is no longer 'completed'.
C22_Witness ==
    \E c \in Calls, r \in db.imports :
        /\ pc[c] = "done" /\ r.id # c /\ r.id \in prior[c]
        /\ r.user = args[c].user /\ r.file_hash = folder[args[c].file_path]
        /\ \/ ~args[c].check_duplicates /\ r.status = "completed"
           \/ args[c].check_duplicates /\ r.status = "failed"
        /\ ~ShortCircuited(c)
        /\ \E n \in db.imports : n.id = c /\ n.status = "completed"
        /\ \E w \in db.workouts : w.id = c

(* ------------------ duplicate hit on a deleted workout ----------------- *)
\* The newest completed records of the caller's bytes all lost their
\* Workout.
OrphanedTwins(user, file_path) ==
    /\ CompletedTwins(user, file_path) # {}
    /\ \A r \in First(CompletedTwins(user, file_path)) : r.workout_log = PyNone

\* A call with check_duplicates=True that meets such a record returns (null
\* Workout, that record), appends the duplicate warning and writes no row.
NullWorkoutHit(c) ==
    CallStep(c) /\ args'[c].check_duplicates
                /\ OrphanedTwins(args'[c].user, args'[c].file_path) =>
        /\ ret'[c].kind = "returned" /\ ret'[c].workout_log = PyNone
        /\ \E r \in First(CompletedTwins(args'[c].user, args'[c].file_path)) :
              /\ ret'[c].fit_import = Int_(r.id)
              /\ warnings'[c] = Append(warnings[c],
                                       <<"Duplicate file detected", r.original_filename>>)
        /\ tx'[c] = EmptyTables /\ exc'[c] = NoExc

\* The completed import records that link to workout id keep their row and
\* their status and lose the link.
RecordsOrphaned(id) ==
    \A r \in db.imports : r.workout_log = Int_(id) /\ r.status = "completed" =>
        \E n \in db'.imports : n.id = r.id /\ n.status = "completed" /\ n.workout_log = PyNone

\* C23, as stated: whenever the Workout of a successful import is deleted,
\* the ImportRecord stays 'completed' with a null Workout link, and a
\* further call on the same bytes by the same user with
\* check_duplicates=True returns (null Workout, that ImportRecord), appends
\* the duplicate warning and creates no row.
C23_DeletedWorkoutOrphansRecord ==
    [][/\ \A id \in Calls :
             (\E w \in db.workouts : w.id = id) /\ ~(\E w \in db'.workouts : w.id = id)
                 => RecordsOrphaned(id)
       /\ \A c \in Calls : NullWorkoutHit(c)
      ]_vars

\* C23, amended: when the Workout of a successful import is deleted through
\* WorkoutLog.delete() (the API's destroy), the ImportRecord stays
\* 'completed' with a null Workout link, and a further call on the same bytes
\* by the same user with check_duplicates=True that finds that record
\* returns (null Workout, that ImportRecord), appends the duplicate warning
\* and creates no row.
C23_DestroyedWorkoutOrphansRecord ==
    [][/\ \A user \in Users, id \in Calls : DestroyWorkout(user, id) => RecordsOrphaned(id)
       /\ \A c \in Calls : NullWorkoutHit(c)
      ]_vars

\* A call that returned a completed record whose Workout had been deleted,
\* with a null Workout, and left no row of its own.
C23_Witness ==
    \E c \in Calls, r \in db.imports :
        /\ pc[c] = "done" /\ ShortCircuited(c)
        /\ r.id # c /\ ret[c].fit_import = Int_(r.id) /\ ret[c].workout_log = PyNone
        /\ r.status = "completed" /\ r.workout_log = PyNone
        /\ r.user = args[c].user /\ r.file_hash = folder[args[c].file_path]
        /\ ~(\E w \in db.workouts : w.id = r.id)
        /\ ~(\E n \in db.imports : n.id = c) /\ ~(\E w \in db.workouts : w.id = c)
        /\ ~(\E l \in db.laps \cup db.records \cup db.devices : l.workout_log = c)

(* ------------------- duplicate upload through the view ---------------- *)
\* The step in which the view links the session and answers request c.
RespondStep(c) ==
    view[c].posted /\ view[c].response.status = "" /\ view'[c].response.status # ""

\* C29: a duplicate upload through the view whose original Workout still
\* exists overwrites that Workout's planned-session link with the supplied
\* session and changes nothing else; without a session it leaves the
\* database unchanged; in both cases the response is a success (201) whose
\* warnings include the duplicate warning.
C29_DuplicateUploadRelinksSession ==
    [][\A c \in Calls : RespondStep(c) /\ ShortCircuited(c) =>
          /\ view'[c].response.status = "success" /\ view'[c].response.code = 201
          /\ \E i \in 1..Len(view'[c].response.warnings) :
                view'[c].response.warnings[i][1] = "Duplicate file detected"
          /\ \A w \in db.workouts : Int_(w.id) = ret[c].workout_log =>
                IF view[c].session # PyNone
                THEN db' = [db EXCEPT !.workouts =
                               (@ \ {w}) \cup {[w EXCEPT !.session = view[c].session]}]
                ELSE db' = db
      ]_vars

\* A duplicate upload answered with success that replaced the session the
\* original upload had linked.
C29_Witness ==
    \E c \in Calls, w \in db.workouts :
        /\ view[c].posted /\ ShortCircuited(c) /\ view[c].response.status = "success"
        /\ w.id # c /\ ret[c].workout_log = Int_(w.id)
        /\ view[c].session # PyNone /\ w.session = view[c].session
        /\ view[w.id].posted /\ view[w.id].response.status = "success"
        /\ view[w.id].session # PyNone /\ view[w.id].session # view[c].session

(* ----------------------------- personal records ----------------------- *)
\* The 'max_weight' records of a user and an exercise.
MaxWeightRecords(user, exercise) ==
    {p \in personal_records :
        p.user = user /\ p.exercise = exercise /\ p.record_type = "max_weight"}

\* At most one of them is current, and no record outweighs the current one.
OneCurrentMaximum ==
    \A user \in Users, exercise \in Exercises :
        /\ Cardinality({p \in MaxWeightRecords(user, exercise) : p.is_current}) <= 1
        /\ \A p, q \in MaxWeightRecords(user, exercise) :
              p.is_current => q.weight_kg.v <= p.weight_kg.v

\* A complete call on a workout that was completed before and got no set
\* since.
Recompletion(w) ==
    /\ completions'[w].n = completions[w].n + 1
    /\ completions[w].n > 0 /\ ~completions[w].raised
    /\ completions[w].sets = SetCount(logbook[w])

\* C30: after any sequence of sequential complete calls, each (user,
\* exercise) has at most one current 'max_weight' PersonalRecord, whose
\* weight is the maximum over all 'max_weight' records of that user and
\* exercise; completing the same workout a second time creates no
\* PersonalRecord.
C30_PersonalRecordUniqueness ==
    /\ []OneCurrentMaximum
    /\ [][\A w \in Workouts : Recompletion(w) => personal_records' = personal_records]_vars

\* A workout completed twice whose two sets each were a record in turn: the
\* lighter record is no longer current, the heavier one is.
C30_Witness ==
    \E w \in Workouts, p, q \in personal_records :
        /\ completions[w].n = 2 /\ ~completions[w].raised
        /\ p.workout_log = w /\ q.workout_log = w
        /\ p.user = q.user /\ p.exercise = q.exercise
        /\ p.weight_kg.v < q.weight_kg.v /\ ~p.is_current /\ q.is_current
        /\ Cardinality(personal_records) = 2

====
